---- MODULE Spec2Model ----
(***************************************************************************)
(* One-pass sweep-line construction of a region intersection graph.        *)
(*                                                                         *)
(* Interval algebra       : src/slig/core/shapes/interval.py               *)
(* RegionEvent, timeline  : src/sources/core/datasets/regiontime.py        *)
(* Graph observer         : src/sources/algorithms/rigraphs/opslconstr.py  *)
(*                                                                         *)
(* Region, RegionSet and the sweep driver (SweeplnAlg / SweeplnRT) are     *)
(* imported by these files but are not part of the source tree; they are   *)
(* modelled from the design document (sections 4.2, 4.3, 4.5).             *)
(*                                                                         *)
(* Coordinates are integers (the comparisons of the code are exact on      *)
(* them), region identifiers are 1..n in place of strings (only their      *)
(* order and equality are used), dimensions are numbered from 0 as in the  *)
(* code.                                                                   *)
(***************************************************************************)
EXTENDS Integers, Sequences, FiniteSets, TLC

(***************************************************************************)
(* Bounds of the model                                                     *)
(***************************************************************************)
MaxCoord == 2
MaxRegions == 3
\* dimensions of the region sets that are built
Dimensions == {1, 2}
\* how many regions a set of dimension d may hold in the model
RegionCap(d) == IF d = 1 THEN MaxRegions ELSE 2

Coords == 0..MaxCoord

None == <<>>
Some(x) == <<x>>

Min2(a, b) == IF a < b THEN a ELSE b
Max2(a, b) == IF a > b THEN a ELSE b

(***************************************************************************)
(* Interval  (interval.py)                                                 *)
(***************************************************************************)
\* alternative that stores the two values in the order given
Interval_as_given(lower, upper) == [lower |-> lower, upper |-> upper]

\* Interval.__init__ / Interval.assign: the smaller value becomes lower
Interval(lower, upper) ==
  IF lower > upper THEN [lower |-> upper, upper |-> lower]
                   ELSE [lower |-> lower, upper |-> upper]

\* dataclasses.astuple(interval)
astuple(i) == <<i.lower, i.upper>>

\* Interval.__hash__: hash(astuple(self)); the tuple that is hashed stands
\* for its hash value
Interval_hash(self) == astuple(self)

\* what Interval.__setattr__ raises
Exception == "Exception"
\* what a lookup of an attribute the object does not have raises, and an
\* assignment to a property without a setter
AttributeError == "AttributeError"

\* the properties of class Interval; none has a setter
IntervalProperties == {"_instance_invariant", "length", "midpoint"}

\* Interval.__setattr__(name, value): the interval afterwards and the outcome;
\* object.__setattr__ refuses the name of a property
Interval_setattr(self, name, value) ==
  IF name = "lower" \/ name = "upper"
  THEN [self |-> self, out |-> <<"raised", Exception>>]
  ELSE IF name \in IntervalProperties
  THEN [self |-> self, out |-> <<"raised", AttributeError>>]
  ELSE [self |-> self, out |-> <<>>]

\* Interval.length
length(i) == IF i.upper - i.lower < 0 THEN -(i.upper - i.lower) ELSE i.upper - i.lower

\* alternative whose second comparison always includes the bound
Interval_is_intersecting_one_sided(self, that, inc_bounds) ==
  IF self = that THEN TRUE
  ELSE IF inc_bounds THEN self.upper >= that.lower /\ that.upper >= self.lower
  ELSE self.upper > that.lower /\ that.upper >= self.lower

\* alternative that always includes the bounds
Interval_is_intersecting_closed(self, that, inc_bounds) ==
  IF self = that THEN TRUE
  ELSE self.upper >= that.lower /\ that.upper >= self.lower

\* alternative without the test for equal intervals
Interval_is_intersecting_no_equal_test(self, that, inc_bounds) ==
  IF inc_bounds THEN self.upper >= that.lower /\ that.upper >= self.lower
  ELSE self.upper > that.lower /\ that.upper > self.lower

\* Interval.is_intersecting
Interval_is_intersecting(self, that, inc_bounds) ==
  IF self = that THEN TRUE
  ELSE IF inc_bounds THEN self.upper >= that.lower /\ that.upper >= self.lower
  ELSE self.upper > that.lower /\ that.upper > self.lower

\* alternative with the roles of min and max exchanged
get_intersection_hull(self, that, inc_bounds) ==
  IF ~Interval_is_intersecting(self, that, inc_bounds) THEN None
  ELSE Some(Interval(Min2(self.lower, that.lower), Max2(self.upper, that.upper)))

\* alternative that builds the interval without testing is_intersecting
get_intersection_unchecked(self, that, inc_bounds) ==
  Some(Interval(Max2(self.lower, that.lower), Min2(self.upper, that.upper)))

\* Interval.get_intersection
get_intersection(self, that, inc_bounds) ==
  IF ~Interval_is_intersecting(self, that, inc_bounds) THEN None
  ELSE Some(Interval(Max2(self.lower, that.lower), Min2(self.upper, that.upper)))

\* alternative that keeps the bounds of the first operand on the left
get_union_left(self, that) ==
  Interval(self.lower, Max2(self.upper, that.upper))

\* Interval.get_union
get_union(self, that) ==
  Interval(Min2(self.lower, that.lower), Max2(self.upper, that.upper))

\* alternative with the two flags exchanged
contains_flags_exchanged(self, value, inc_lower, inc_upper) ==
  LET gte_lower == IF inc_upper THEN self.lower <= value ELSE self.lower < value
      lte_upper == IF inc_lower THEN self.upper >= value ELSE self.upper > value
  IN gte_lower /\ lte_upper

\* Interval.contains
contains(self, value, inc_lower, inc_upper) ==
  LET gte_lower == IF inc_lower THEN self.lower <= value ELSE self.lower < value
      lte_upper == IF inc_upper THEN self.upper >= value ELSE self.upper > value
  IN gte_lower /\ lte_upper

\* alternative that compares the lengths only
encloses_by_length(self, that, inc_lower, inc_upper) ==
  length(self) >= length(that)

\* alternative that tests the lower bound of that only
encloses_lower_only(self, that, inc_lower, inc_upper) ==
  /\ length(self) >= length(that)
  /\ contains(self, that.lower, inc_lower, inc_upper)

\* Interval.encloses
encloses(self, that, inc_lower, inc_upper) ==
  /\ length(self) >= length(that)
  /\ contains(self, that.lower, inc_lower, inc_upper)
  /\ contains(self, that.upper, inc_lower, inc_upper)

\* Interval.__contains__(value): value is a number or an Interval, given
\* with its type
Interval_contains_operator(self, value) ==
  IF value.type = "Interval" THEN encloses(self, value.data, TRUE, TRUE)
  ELSE contains(self, value.data, TRUE, TRUE)

\* what a failed assert of the code raises
AssertionError == "AssertionError"

RECURSIVE reduce_get_union(_, _)
\* reduce(lambda a, b: a.get_union(b), intervals), acc being the value so far
reduce_get_union(acc, rest) ==
  IF rest = <<>> THEN acc
  ELSE reduce_get_union(get_union(acc, Head(rest)), Tail(rest))

\* Interval.from_union: a list of at least two intervals is required
from_union(intervals) ==
  IF Len(intervals) > 1
  THEN reduce_get_union(Head(intervals), Tail(intervals))
  ELSE AssertionError

\* dataclasses.asdict(interval)
asdict(i) == [lower |-> i.lower, upper |-> i.upper]

\* a Python object together with its type, for the code that tests it
PyObject(type, data) == [type |-> type, data |-> data]

\* Interval.to_object(object, compact = ...)
to_object(object, compact) ==
  IF compact THEN PyObject("tuple", astuple(object))
  ELSE PyObject("dict", asdict(object))

\* alternative that reads the first item for both bounds
from_object_first_item(object) ==
  IF object.type = "dict"
  THEN Interval(object.data.lower, object.data.lower)
  ELSE Interval(object.data[1], object.data[1])

\* Interval.from_object(object)
from_object(object) ==
  IF object.type = "dict"
  THEN Interval(object.data.lower, object.data.upper)
  ELSE Interval(object.data[1], object.data[2])

\* a call that ends by raising e instead of returning a value
Raised(e) == <<"raised", e>>
IsRaised(v) == Len(v) = 2

\* the properties and methods that class Interval defines
IntervalAttributes ==
  {"lower", "upper", "_instance_invariant", "length", "midpoint", "assign",
   "copy", "contains", "encloses", "is_intersecting", "get_intersection",
   "get_union", "from_intersection", "from_union", "to_object", "from_object"}

\* intersect(a, b), the function that from_intersection folds: a is the
\* value so far (None or Some interval), b the next interval of the list
intersect(a, b) ==
  IF a = None THEN Raised(AssertionError)
  ELSE IF "overlaps" \notin IntervalAttributes THEN Raised(AttributeError)
  ELSE get_intersection(a[1], b, FALSE)

RECURSIVE reduce_intersect(_, _)
\* reduce(intersect, intervals): an exception ends the fold
reduce_intersect(acc, rest) ==
  IF rest = <<>> THEN acc
  ELSE LET r == intersect(acc, Head(rest))
       IN IF IsRaised(r) THEN r ELSE reduce_intersect(r, Tail(rest))

\* Interval.from_intersection: only an AssertionError of the fold is caught
from_intersection(intervals) ==
  IF Len(intervals) <= 1 THEN Raised(AssertionError)
  ELSE LET r == reduce_intersect(Some(Head(intervals)), Tail(intervals))
       IN IF r = Raised(AssertionError) THEN None ELSE r

AllIntervals == {Interval(l, u) : l \in Coords, u \in Coords}

(***************************************************************************)
(* Region and RegionSet  (design document 4.2, 4.3)                        *)
(***************************************************************************)
\* Region(intervals, id): a new object; ref stands for its identity, which
\* no other object has
Region(id, factors, ref) == [id |-> id, factors |-> factors, ref |-> ref]

Region_dimension(r) == Cardinality(DOMAIN r.factors)

\* Region.is_intersecting: every pair of corresponding factors intersects
Region_is_intersecting(self, that, inc_bounds) ==
  \A i \in DOMAIN self.factors :
    Interval_is_intersecting(self.factors[i], that.factors[i], inc_bounds)

\* Region.intersect: absent, or the per-dimension get_intersection
Region_intersect(self, that, inc_bounds) ==
  IF ~Region_is_intersecting(self, that, inc_bounds) THEN None
  ELSE Some([i \in DOMAIN self.factors |->
               get_intersection(self.factors[i], that.factors[i], inc_bounds)[1]])

\* Region.encloses with the default flags: each factor of self encloses the
\* corresponding factor of that
Region_encloses(self, that) ==
  \A i \in DOMAIN self.factors :
    encloses(self.factors[i], that.factors[i], TRUE, TRUE)

\* identifier of the bounding box: no region of a set has it
BBoxId == 0
\* identity of the bounding box object: no region of a set is that object
BBoxRef == BBoxId

\* RegionSet(dimension = ...) and RegionSet(bounds = ...): an empty set;
\* bounds is None or Some bounding region of that dimension
RegionSet(dimension, bounds) ==
  [dimension |-> dimension, bounds |-> bounds, regions |-> <<>>]

\* the error kinds of RegionSet.add
DimensionMismatch == "DimensionMismatch"
OutOfBounds == "OutOfBounds"
InvariantViolation == "InvariantViolation"

RegionSet_ids(rs) == {rs.regions[n].id : n \in 1..Len(rs.regions)}

\* alternative that does not compare the dimensions
RegionSet_add_any_dimension(rs, region) ==
  IF /\ rs.bounds # <<>>
     /\ Cardinality(DOMAIN region.factors) = rs.dimension
     /\ ~Region_encloses(rs.bounds[1], region)
  THEN [rs |-> rs, out |-> <<"raised", OutOfBounds>>]
  ELSE IF region.id \in RegionSet_ids(rs)
  THEN [rs |-> rs, out |-> <<"raised", InvariantViolation>>]
  ELSE [rs |-> [rs EXCEPT !.regions = Append(@, region)], out |-> <<>>]

\* alternative that puts the new region in front and accepts any identifier
RegionSet_add_in_front(rs, region) ==
  IF Cardinality(DOMAIN region.factors) # rs.dimension
  THEN [rs |-> rs, out |-> <<"raised", DimensionMismatch>>]
  ELSE IF rs.bounds # <<>> /\ ~Region_encloses(rs.bounds[1], region)
  THEN [rs |-> rs, out |-> <<"raised", OutOfBounds>>]
  ELSE [rs |-> [rs EXCEPT !.regions = <<region>> \o @], out |-> <<>>]

\* RegionSet.add(region): the set afterwards and the outcome
RegionSet_add(rs, region) ==
  IF Region_dimension(region) # rs.dimension
  THEN [rs |-> rs, out |-> <<"raised", DimensionMismatch>>]
  ELSE IF rs.bounds # None /\ ~Region_encloses(rs.bounds[1], region)
  THEN [rs |-> rs, out |-> <<"raised", OutOfBounds>>]
  ELSE IF region.id \in RegionSet_ids(rs)
  THEN [rs |-> rs, out |-> <<"raised", InvariantViolation>>]
  ELSE [rs |-> [rs EXCEPT !.regions = Append(@, region)], out |-> None]

\* RegionSet.size
RegionSet_size(rs) == Len(rs.regions)

\* regionset[key]: key is an index counted from 0 or an identifier, given
\* with its type
RegionSet_getitem(rs, key) ==
  IF key.type = "int" THEN rs.regions[key.data + 1]
  ELSE rs.regions[CHOOSE n \in 1..Len(rs.regions) : rs.regions[n].id = key.data]

\* value in regionset: value is a Region (equal by identifier) or an
\* identifier, given with its type
RegionSet_contains(rs, value) ==
  IF value.type = "Region" THEN value.data.id \in RegionSet_ids(rs)
  ELSE value.data \in RegionSet_ids(rs)

RECURSIVE fold_union(_)
\* fold of get_union over a non-empty list of intervals
fold_union(intervals) ==
  IF Len(intervals) = 1 THEN intervals[1]
  ELSE get_union(fold_union(SubSeq(intervals, 1, Len(intervals) - 1)),
                 intervals[Len(intervals)])

\* RegionSet.minbounds / bbox: per-dimension union of every region's factor
bbox(rs) ==
  Region(BBoxId,
         [i \in 0..(rs.dimension - 1) |->
            fold_union([j \in 1..Len(rs.regions) |-> rs.regions[j].factors[i]])],
         BBoxRef)

(***************************************************************************)
(* RegionEvent  (regiontime.py)                                            *)
(***************************************************************************)
KindInit == 1
KindBegin == 2
KindEnd == 3
KindDone == 4

\* alternative constructors, each with one slip in the computation of `order`
\* Init and Done priorities exchanged
RegionEvent_brackets_swapped(kind, context, dimension) ==
  LET f == context.factors[dimension]
      base == (IF length(f) = 0 THEN 0 ELSE 1) * (IF kind = KindEnd THEN -1 ELSE 1)
  IN [kind      |-> kind,
      context   |-> context,
      dimension |-> dimension,
      when      |-> IF kind = KindInit \/ kind = KindBegin THEN f.lower ELSE f.upper,
      order     |-> IF kind = KindInit THEN 2
                    ELSE IF kind = KindDone THEN -2
                    ELSE base]

\* Init and Done priorities not set
RegionEvent_no_brackets(kind, context, dimension) ==
  LET f == context.factors[dimension]
      base == (IF length(f) = 0 THEN 0 ELSE 1) * (IF kind = KindEnd THEN -1 ELSE 1)
  IN [kind      |-> kind,
      context   |-> context,
      dimension |-> dimension,
      when      |-> IF kind = KindInit \/ kind = KindBegin THEN f.lower ELSE f.upper,
      order     |-> base]

\* zero length not told apart
RegionEvent_no_zero_length(kind, context, dimension) ==
  LET f == context.factors[dimension]
      base == IF kind = KindEnd THEN -1 ELSE 1
  IN [kind      |-> kind,
      context   |-> context,
      dimension |-> dimension,
      when      |-> IF kind = KindInit \/ kind = KindBegin THEN f.lower ELSE f.upper,
      order     |-> IF kind = KindInit THEN -2
                    ELSE IF kind = KindDone THEN 2
                    ELSE base]

\* RegionEvent.__init__
RegionEvent(kind, context, dimension) ==
  LET f == context.factors[dimension]
      base == (IF length(f) = 0 THEN 0 ELSE 1) * (IF kind = KindEnd THEN -1 ELSE 1)
  IN [kind      |-> kind,
      context   |-> context,
      dimension |-> dimension,
      when      |-> IF kind = KindInit \/ kind = KindBegin THEN f.lower ELSE f.upper,
      order     |-> IF kind = KindInit THEN -2
                    ELSE IF kind = KindDone THEN 2
                    ELSE base]

\* `self.context is that.context`: the two contexts are one object
SameContext(a, b) == a.context.ref = b.context.ref

\* RegionEvent.__eq__
RegionEvent_eq(self, that) ==
  /\ self.when = that.when
  /\ self.kind = that.kind
  /\ SameContext(self, that)

\* alternative comparisons, each with one slip
\* `order` not compared
RegionEvent_lt_ignoring_order(self, that) ==
  IF RegionEvent_eq(self, that) THEN FALSE
  ELSE IF self.when # that.when THEN self.when < that.when
  ELSE IF SameContext(self, that) \/ self.context.id = that.context.id
       THEN self.kind < that.kind
  ELSE self.context.id < that.context.id

\* events of one context ordered by descending kind
RegionEvent_lt_end_first(self, that) ==
  IF RegionEvent_eq(self, that) THEN FALSE
  ELSE IF self.when # that.when THEN self.when < that.when
  ELSE IF self.order # that.order THEN self.order < that.order
  ELSE IF SameContext(self, that) \/ self.context.id = that.context.id
       THEN self.kind > that.kind
  ELSE self.context.id < that.context.id

\* events of one context not told apart by kind
RegionEvent_lt_id_only(self, that) ==
  IF RegionEvent_eq(self, that) THEN FALSE
  ELSE IF self.when # that.when THEN self.when < that.when
  ELSE IF self.order # that.order THEN self.order < that.order
  ELSE self.context.id < that.context.id

\* ties on `order` broken by kind before the identifier of the context
RegionEvent_lt_kind_first(self, that) ==
  IF RegionEvent_eq(self, that) THEN FALSE
  ELSE IF self.when # that.when THEN self.when < that.when
  ELSE IF self.order # that.order THEN self.order < that.order
  ELSE IF self.kind # that.kind THEN self.kind < that.kind
  ELSE self.context.id < that.context.id

\* RegionEvent.__lt__
RegionEvent_lt(self, that) ==
  IF RegionEvent_eq(self, that) THEN FALSE
  ELSE IF self.when # that.when THEN self.when < that.when
  ELSE IF self.order # that.order THEN self.order < that.order
  ELSE IF SameContext(self, that) \/ self.context.id = that.context.id
       THEN self.kind < that.kind
  ELSE self.context.id < that.context.id

(***************************************************************************)
(* Legacy Event  (datastructs/timeline.py)                                 *)
(***************************************************************************)
EventKind_Begin == 0
EventKind_End == 1

\* Event.__init__
Event(kind, when, context) == [kind |-> kind, when |-> when, context |-> context]

\* Event.__eq__: equal when and equal kind
Event_eq(self, that) ==
  /\ self.when = that.when
  /\ self.kind = that.kind

\* Region.__eq__: equality on Regions is by identifier
Region_eq(self, that) == self.id = that.id

\* Event.__lt__
Event_lt(self, that) ==
  IF Event_eq(self, that) THEN FALSE
  ELSE IF self.when # that.when THEN self.when < that.when
  ELSE IF Region_eq(self.context, that.context) THEN self.kind < that.kind
  ELSE self.kind > that.kind

(***************************************************************************)
(* sorted(): the list sort behind SortedList(iterable), for lists shorter  *)
(* than 64 elements: the leading run is found (and reversed when strictly  *)
(* descending), the rest is inserted by binary insertion, rightmost.       *)
(* `a < b` is the __lt__ of the class of a: a RegionEvent has an order.    *)
(***************************************************************************)
ISLT(a, b) ==
  IF "order" \in DOMAIN a THEN RegionEvent_lt(a, b) ELSE Event_lt(a, b)

Reverse(s) == [i \in 1..Len(s) |-> s[Len(s) + 1 - i]]

RECURSIVE count_run(_, _, _)
count_run(a, n, descending) ==
  IF n >= Len(a) THEN n
  ELSE IF ISLT(a[n + 1], a[n]) = descending THEN count_run(a, n + 1, descending)
  ELSE n

RECURSIVE bisect(_, _, _, _)
\* l, r are offsets from the start of a, as in the C code
bisect(a, pivot, l, r) ==
  IF l >= r THEN l
  ELSE LET p == l + ((r - l) \div 2)
       IN IF ISLT(pivot, a[p + 1]) THEN bisect(a, pivot, l, p)
          ELSE bisect(a, pivot, p + 1, r)

RECURSIVE binarysort(_, _)
binarysort(a, start) ==
  IF start > Len(a) THEN a
  ELSE LET pivot == a[start]
           l == bisect(a, pivot, 0, start - 1)
       IN binarysort(SubSeq(a, 1, l) \o <<pivot>> \o SubSeq(a, l + 1, start - 1)
                       \o SubSeq(a, start + 1, Len(a)),
                     start + 1)

sorted(a) ==
  IF Len(a) < 2 THEN a
  ELSE LET descending == ISLT(a[2], a[1])
           n == count_run(a, 2, descending)
           run == IF descending THEN Reverse(SubSeq(a, 1, n)) ELSE SubSeq(a, 1, n)
       IN binarysort(run \o SubSeq(a, n + 1, Len(a)), n + 1)

(***************************************************************************)
(* RegionTimeln.events  (regiontime.py)                                    *)
(***************************************************************************)
\* an alternative generator that emits Begin for both events of a region
events_gen_begin_twice(rs, dimension) ==
  <<RegionEvent(KindInit, bbox(rs), dimension),
    RegionEvent(KindDone, bbox(rs), dimension)>>
  \o [n \in 1..(2 * Len(rs.regions)) |->
        RegionEvent(KindBegin, rs.regions[(n + 1) \div 2], dimension)]

\* the generator _events(): Init, Done, then Begin and End of every region
events_gen(rs, dimension) ==
  <<RegionEvent(KindInit, bbox(rs), dimension),
    RegionEvent(KindDone, bbox(rs), dimension)>>
  \o [n \in 1..(2 * Len(rs.regions)) |->
        RegionEvent(IF n % 2 = 1 THEN KindBegin ELSE KindEnd,
                    rs.regions[(n + 1) \div 2], dimension)]

\* iter(SortedList(_events()))
events(rs, dimension) == sorted(events_gen(rs, dimension))

\* legacy Timeline._events: Begin and End of every region, in the set's order
Timeline_events(regions, dimension) ==
  [n \in 1..(2 * Len(regions.regions)) |->
     LET region == regions.regions[(n + 1) \div 2]
     IN IF n % 2 = 1
        THEN Event(EventKind_Begin, region.factors[dimension].lower, region)
        ELSE Event(EventKind_End, region.factors[dimension].upper, region)]

\* legacy Timeline._sorted_events: SortedList(self._events(dimension)).__iter__()
Timeline_sorted_events(regions, dimension) ==
  sorted(Timeline_events(regions, dimension))

(***************************************************************************)
(* Graph  (networkx.Graph as used by opslconstr.py)                        *)
(* nodes: identifier -> payload, edges: unordered pair -> label            *)
(***************************************************************************)
EmptyGraph == [nodes |-> [n \in {} |-> None], edges |-> [p \in {} |-> None]]

\* Graph.add_node(id, region = region)
add_node(g, id, payload) ==
  [g EXCEPT !.nodes = [n \in DOMAIN g.nodes \cup {id} |->
                         IF n = id THEN Some(payload) ELSE g.nodes[n]]]

\* Graph.add_edge(u, v, intersect = label): missing end points become nodes
\* without payload, an existing edge {u, v} gets the new label
add_edge(g, u, v, label) ==
  [nodes |-> [n \in DOMAIN g.nodes \cup {u, v} |->
                IF n \in DOMAIN g.nodes THEN g.nodes[n] ELSE None],
   edges |-> [p \in DOMAIN g.edges \cup {{u, v}} |->
                IF p = {u, v} THEN label ELSE g.edges[p]]]

(***************************************************************************)
(* OpslConstr  (opslconstr.py)                                             *)
(***************************************************************************)
RECURSIVE add_nodes(_, _)
add_nodes(g, regions) ==
  IF regions = <<>> THEN g
  ELSE add_nodes(add_node(g, Head(regions).id, Head(regions)), Tail(regions))

\* alternative that leaves out the first region
oninit_skip_first(rs) == add_nodes(EmptyGraph, Tail(rs.regions))

\* OpslConstr.oninit: a new Graph with one node per region
oninit(rs) == add_nodes(EmptyGraph, rs.regions)

\* OpslConstr.addoverlap
addoverlap(g, regionpair) ==
  add_edge(g, regionpair[1].id, regionpair[2].id,
           Region_intersect(regionpair[1], regionpair[2], FALSE))

\* OpslConstr.onfinalize: returns the graph
onfinalize(g) == g

(***************************************************************************)
(* Sweep driver and observer dispatch  (design document 4.5)               *)
(***************************************************************************)
\* on_candidate(A, R): in one dimension every candidate is an overlap, in
\* more dimensions the pair is kept when A.is_intersecting(R) holds
\* alternative that keeps every candidate pair
accepts_every_candidate(rs, A, R) == TRUE

accepts(rs, A, R) ==
  IF rs.dimension = 1 THEN TRUE ELSE Region_is_intersecting(A, R, FALSE)

on_candidate(g, rs, A, R) ==
  IF accepts(rs, A, R) THEN addoverlap(g, <<A, R>>) ELSE g

RECURSIVE on_begin(_, _, _, _)
\* every active region, in insertion order, is paired with the new region
on_begin(g, rs, act, R) ==
  IF act = <<>> THEN g
  ELSE on_begin(on_candidate(g, rs, Head(act), R), rs, Tail(act), R)

\* the active set is keyed by identifier
activate(act, R) ==
  IF \E i \in 1..Len(act) : act[i].id = R.id
  THEN [i \in 1..Len(act) |-> IF act[i].id = R.id THEN R ELSE act[i]]
  ELSE Append(act, R)

deactivate(act, R) == SelectSeq(act, LAMBDA A : A.id # R.id)

\* a callback of the observer as the driver dispatches it: its name, the
\* identifier of its region and the identifiers of the active set it receives
Dispatch(callback, R, act) ==
  [callback |-> callback, region |-> R.id,
   active_set |-> [i \in 1..Len(act) |-> act[i].id]]

\* alternative that dispatches on_end before the region is removed
end_region_dispatch_first(act, R) ==
  [actives |-> deactivate(act, R), dispatched |-> Dispatch("on_end", R, act)]

\* End(R): R is removed from the active set, then on_end(R, active_set)
end_region(act, R) ==
  LET remaining == deactivate(act, R)
  IN [actives |-> remaining, dispatched |-> Dispatch("on_end", R, remaining)]

\* alternative that inserts the region before it dispatches
begin_region_insert_first(act, R) ==
  [actives |-> activate(act, R),
   dispatched |-> Dispatch("on_begin", R, activate(act, R))]

\* Begin(R): on_begin and on_candidate(A, R) for every active A, then R is
\* inserted into the active set
begin_region(act, R) ==
  [actives |-> activate(act, R), dispatched |-> Dispatch("on_begin", R, act)]

(***************************************************************************)
(* State                                                                   *)
(***************************************************************************)
VARIABLES
  regionset,   \* the RegionSet: [dimension, regions]
  pc,          \* "build", "sweep" or "done"
  sweepdim,    \* the sweep dimension of the running sweep
  timeline,    \* the sorted events of the running sweep
  pos,         \* number of events of the timeline that have been processed
  actives,     \* the active set, in insertion order
  graph,       \* the graph under construction
  candidates,  \* history: the candidate pairs <<A.id, R.id>> emitted so far
  overlaps,    \* history: the pairs handed to addoverlap so far
  result,      \* what onfinalize returned
  dispatched,  \* history: the last callback the driver dispatched
  ilist,       \* interval algebra: the Interval objects constructed so far
  iout,        \* interval algebra: the last call, its arguments and its result
  rsout,       \* RegionSet operations: the last call, its arguments and its result
  objects_dict,\* legacy sweep: the generator's objects, in insertion order
  sweepline,   \* legacy sweep: the Sweepline object (absent before __init__)
  frame        \* legacy sweep: the local variables of run (absent before run)

sweepvars == <<regionset, pc, sweepdim, timeline, pos, actives, graph,
               candidates, overlaps, result, dispatched, rsout,
               objects_dict, sweepline, frame>>
ivars == <<ilist, iout>>
vars == <<regionset, pc, sweepdim, timeline, pos, actives, graph,
          candidates, overlaps, result, dispatched, ilist, iout, rsout,
          objects_dict, sweepline, frame>>
legacyvars == <<objects_dict, sweepline, frame>>

Idle == [op |-> "none", args |-> <<>>, value |-> None]

Init ==
  /\ \E d \in Dimensions : regionset = RegionSet(d, None)
  /\ pc = "build"
  /\ sweepdim = 0
  /\ timeline = <<>>
  /\ pos = 0
  /\ actives = <<>>
  /\ graph = EmptyGraph
  /\ candidates = <<>>
  /\ overlaps = <<>>
  /\ result = None
  /\ dispatched = None
  /\ ilist = <<>>
  /\ iout = Idle
  /\ rsout = Idle
  /\ objects_dict = <<>>
  /\ sweepline = None
  /\ frame = None

\* RegionSet.add(region): the region has the dimension of the set
add ==
  /\ pc = "build"
  /\ Len(regionset.regions) < RegionCap(regionset.dimension)
  /\ \E factors \in [0..(regionset.dimension - 1) -> AllIntervals] :
       LET region == Region(Len(regionset.regions) + 1, factors,
                            Len(regionset.regions) + 1)
       IN /\ Region_dimension(region) = regionset.dimension
          /\ regionset' = [regionset EXCEPT !.regions = Append(@, region)]
  /\ UNCHANGED <<pc, sweepdim, timeline, pos, actives, graph, candidates,
                 overlaps, result, dispatched>>
  /\ UNCHANGED <<ivars, rsout, legacyvars>>

\* OpslConstr(regionset) evaluated on a sweep dimension: the timeline is built
sweep ==
  /\ pc = "build"
  /\ Len(regionset.regions) >= 1
  /\ \E dimension \in 0..(regionset.dimension - 1) :
       /\ sweepdim' = dimension
       /\ timeline' = events(regionset, dimension)
  /\ pc' = "sweep"
  /\ pos' = 0
  /\ UNCHANGED <<regionset, actives, graph, candidates, overlaps, result,
                 dispatched>>
  /\ UNCHANGED <<ivars, rsout, legacyvars>>

NextEvent == timeline[pos + 1]
HasNext(kind) == pc = "sweep" /\ pos < Len(timeline) /\ NextEvent.kind = kind

\* Init event: on_init, the active set starts empty
on_init_event ==
  /\ HasNext(KindInit)
  /\ graph' = oninit(regionset)
  /\ actives' = <<>>
  /\ dispatched' = Some([callback |-> "on_init", region |-> 0, active_set |-> <<>>])
  /\ pos' = pos + 1
  /\ UNCHANGED <<regionset, pc, sweepdim, timeline, candidates, overlaps, result>>
  /\ UNCHANGED <<ivars, rsout, legacyvars>>

\* Begin(R): candidate pairs with every active region, then R becomes active
on_begin_event ==
  /\ HasNext(KindBegin)
  /\ LET R == NextEvent.context
     IN /\ graph' = on_begin(graph, regionset, actives, R)
        /\ candidates' = candidates \o [i \in 1..Len(actives) |-> <<actives[i].id, R.id>>]
        /\ overlaps' = overlaps \o
             [i \in 1..Len(SelectSeq(actives, LAMBDA A : accepts(regionset, A, R))) |->
                <<SelectSeq(actives, LAMBDA A : accepts(regionset, A, R))[i].id, R.id>>]
        /\ actives' = begin_region(actives, R).actives
        /\ dispatched' = Some(begin_region(actives, R).dispatched)
  /\ pos' = pos + 1
  /\ UNCHANGED <<regionset, pc, sweepdim, timeline, result>>
  /\ UNCHANGED <<ivars, rsout, legacyvars>>

\* End(R): R leaves the active set, then on_end (which does nothing)
on_end_event ==
  /\ HasNext(KindEnd)
  /\ actives' = end_region(actives, NextEvent.context).actives
  /\ dispatched' = Some(end_region(actives, NextEvent.context).dispatched)
  /\ pos' = pos + 1
  /\ UNCHANGED <<regionset, pc, sweepdim, timeline, graph, candidates, overlaps, result>>
  /\ UNCHANGED <<ivars, rsout, legacyvars>>

\* Done: on_done returns the finished graph
on_done_event ==
  /\ HasNext(KindDone)
  /\ result' = Some(onfinalize(graph))
  /\ dispatched' = Some([callback |-> "on_done", region |-> 0, active_set |-> <<>>])
  /\ pos' = pos + 1
  /\ pc' = IF pos + 1 = Len(timeline) THEN "done" ELSE pc
  /\ UNCHANGED <<regionset, sweepdim, timeline, actives, graph, candidates, overlaps>>
  /\ UNCHANGED <<ivars, rsout, legacyvars>>

Next ==
  \/ add
  \/ sweep
  \/ on_init_event
  \/ on_begin_event
  \/ on_end_event
  \/ on_done_event

Spec == Init /\ [][Next]_vars

(***************************************************************************)
(* Helpers of the properties                                               *)
(***************************************************************************)
Regions == regionset.regions
RegionIds == {Regions[i].id : i \in 1..Len(Regions)}
RegionOf(id) == CHOOSE r \in {Regions[i] : i \in 1..Len(Regions)} : r.id = id
\* the factor of region id on the sweep dimension
Proj(id) == RegionOf(id).factors[sweepdim]
Sweeping == pc \in {"sweep", "done"}
\* positions in the timeline of the events of one kind of one context
Idx(kind, id) ==
  {n \in 1..Len(timeline) : timeline[n].kind = kind /\ timeline[n].context.id = id}
Unordered(pairs) == {{pairs[n][1], pairs[n][2]} : n \in 1..Len(pairs)}
IdPairs == {p \in SUBSET RegionIds : Cardinality(p) = 2}
ZeroLength(id) == length(Proj(id)) = 0

(***************************************************************************)
(* C1: the finished graph has the edge {A.id, B.id} exactly when           *)
(* A.is_intersecting(B, inc_bounds = false) holds on every dimension,      *)
(* zero-length and identical factors included.                             *)
(***************************************************************************)
C1_EdgeIffIntersecting ==
  pc = "done" =>
    \A a \in RegionIds, b \in RegionIds :
      a # b =>
        (({a, b} \in DOMAIN graph.edges)
           <=> Region_is_intersecting(RegionOf(a), RegionOf(b), FALSE))

(***************************************************************************)
(* C2: the candidate pairs of a sweep on dimension k are exactly the       *)
(* unordered pairs whose projections on k are intersecting (inc_bounds =   *)
(* false); in one dimension the number of candidates is the number of      *)
(* overlapping pairs, in more dimensions no intersecting pair is missed.   *)
(***************************************************************************)
C2_CandidatesAreProjectionOverlaps ==
  pc = "done" =>
    LET overlapping == {p \in IdPairs :
                          \A a \in p, b \in p :
                            a # b => Interval_is_intersecting(Proj(a), Proj(b), FALSE)}
    IN /\ Unordered(candidates) = overlapping
       /\ regionset.dimension = 1 => Len(candidates) = Cardinality(overlapping)
       /\ \A a \in RegionIds, b \in RegionIds :
            (a # b /\ Region_is_intersecting(RegionOf(a), RegionOf(b), FALSE))
              => {a, b} \in Unordered(candidates)

(***************************************************************************)
(* C3: no unordered pair is emitted as a candidate twice; a pair (A, R) is *)
(* emitted at Begin(R) with the Begin of A earlier in the event order, and *)
(* the graph is never handed the same edge twice.                          *)
(***************************************************************************)
C3_NoDuplicateCandidate ==
  Sweeping =>
    /\ \A m \in 1..Len(candidates), n \in 1..Len(candidates) :
         m < n => {candidates[m][1], candidates[m][2]}
                    # {candidates[n][1], candidates[n][2]}
    /\ \A m \in 1..Len(overlaps), n \in 1..Len(overlaps) :
         m < n => {overlaps[m][1], overlaps[m][2]} # {overlaps[n][1], overlaps[n][2]}
    /\ \A m \in 1..Len(candidates) :
         \E ia \in Idx(KindBegin, candidates[m][1]),
            ir \in Idx(KindBegin, candidates[m][2]) : ia < ir /\ ir <= pos

C3_Witness ==
  /\ pc = "done"
  /\ Len(candidates) >= 2
  /\ Len(overlaps) >= 2

(***************************************************************************)
(* C4: no candidate pair (A, R) has A.id = R.id: when Begin(R) is          *)
(* processed R is not in the active set, and the graph has no self-loop.   *)
(***************************************************************************)
C4_NoSelfPair ==
  Sweeping =>
    /\ \A m \in 1..Len(candidates) : candidates[m][1] # candidates[m][2]
    /\ \A p \in DOMAIN graph.edges : Cardinality(p) = 2
    /\ HasNext(KindBegin) =>
         \A i \in 1..Len(actives) : actives[i].id # NextEvent.context.id

C4_Witness ==
  /\ HasNext(KindBegin)
  /\ Len(actives) >= 1
  /\ Len(candidates) >= 1
  /\ DOMAIN graph.edges # {}

(***************************************************************************)
(* C5: two regions of non-zero length on the sweep dimension, one ending   *)
(* where the other begins: End(A) precedes Begin(B), the pair is never a   *)
(* candidate, and the 1-D graph of two such intervals has two nodes and no *)
(* edge.                                                                   *)
(***************************************************************************)
Adjacent(a, b) ==
  /\ a # b
  /\ ~ZeroLength(a)
  /\ ~ZeroLength(b)
  /\ Proj(a).upper = Proj(b).lower

C5_AdjacentNotOverlapping ==
  Sweeping =>
    \A a \in RegionIds, b \in RegionIds :
      Adjacent(a, b) =>
        /\ \A ie \in Idx(KindEnd, a), ib \in Idx(KindBegin, b) : ie < ib
        /\ Idx(KindEnd, a) # {} /\ Idx(KindBegin, b) # {}
        /\ {a, b} \notin Unordered(candidates)
        /\ (pc = "done" /\ regionset.dimension = 1 /\ Len(Regions) = 2)
             => (DOMAIN graph.nodes = {a, b} /\ DOMAIN graph.edges = {})

C5_Witness ==
  /\ pc = "done"
  /\ regionset.dimension = 1
  /\ Len(Regions) = 2
  /\ Adjacent(2, 1)

(***************************************************************************)
(* C6: after every processed event the active set is exactly the set of    *)
(* regions whose Begin has been processed and whose End has not; it is     *)
(* empty after Init and empty again when Done is reached.                  *)
(***************************************************************************)
Begun == {id \in RegionIds : \E n \in Idx(KindBegin, id) : n <= pos}
Ended == {id \in RegionIds : \E n \in Idx(KindEnd, id) : n <= pos}
ActiveIds == {actives[i].id : i \in 1..Len(actives)}

C6_ActiveSetExact ==
  Sweeping =>
    /\ ActiveIds = Begun \ Ended
    /\ Cardinality(ActiveIds) = Len(actives)
    /\ \A i \in 1..Len(actives) : actives[i] = RegionOf(actives[i].id)
    /\ (pos >= 1 /\ timeline[pos].kind \in {KindInit, KindDone}) => actives = <<>>
    /\ pc = "done" => actives = <<>>

C6_Witness ==
  /\ pc = "sweep"
  /\ Len(actives) >= 2
  /\ Ended # {}

(***************************************************************************)
(* C7: the sorted events hold exactly one Begin(R) and one End(R) for      *)
(* every region R, Begin(R) strictly before End(R), also when R has zero   *)
(* length on the sweep dimension and both events share the same `when`.    *)
(***************************************************************************)
C7_OneBeginOneEnd ==
  Sweeping =>
    /\ Len(timeline) = 2 * Len(Regions) + 2
    /\ \A id \in RegionIds :
         /\ Cardinality(Idx(KindBegin, id)) = 1
         /\ Cardinality(Idx(KindEnd, id)) = 1
         /\ \A b \in Idx(KindBegin, id), e \in Idx(KindEnd, id) :
              /\ b < e
              /\ timeline[b].when = Proj(id).lower
              /\ timeline[e].when = Proj(id).upper
              /\ timeline[b].context = RegionOf(id)
              /\ timeline[e].context = RegionOf(id)

C7_Witness ==
  /\ Sweeping
  /\ \E a \in RegionIds, b \in RegionIds :
       /\ ZeroLength(a)
       /\ ~ZeroLength(b)
       /\ \A n \in Idx(KindBegin, a) : timeline[n + 1].kind = KindEnd

(***************************************************************************)
(* C8: the sorted events have exactly one Init, the first element, and     *)
(* exactly one Done, the last element, also when region events share the   *)
(* position of a bound of the bounding box and when the bounding box has   *)
(* zero length on the sweep dimension.                                     *)
(***************************************************************************)
C8_InitFirstDoneLast ==
  Sweeping =>
    /\ {n \in 1..Len(timeline) : timeline[n].kind = KindInit} = {1}
    /\ {n \in 1..Len(timeline) : timeline[n].kind = KindDone} = {Len(timeline)}
    /\ timeline[1].context = bbox(regionset)
    /\ timeline[Len(timeline)].context = bbox(regionset)

C8_Witness ==
  /\ Sweeping
  /\ Len(Regions) >= 2
  /\ length(bbox(regionset).factors[sweepdim]) = 0
  /\ timeline[1].when = timeline[Len(timeline)].when

(***************************************************************************)
(* C9: on the events of one timeline the comparison is a strict total      *)
(* order: irreflexive, asymmetric, transitive, any two distinct events     *)
(* comparable; it orders by `when`, then `order`, then, for one context,   *)
(* by kind (Begin before End), otherwise by context id.                    *)
(***************************************************************************)
Before(a, b) ==
  \/ a.when < b.when
  \/ a.when = b.when /\ a.order < b.order
  \/ a.when = b.when /\ a.order = b.order /\ a.context.id = b.context.id
       /\ a.kind < b.kind
  \/ a.when = b.when /\ a.order = b.order /\ a.context.id < b.context.id

C9_StrictTotalOrder ==
  (pc = "sweep" /\ pos = 0) =>
    LET N == 1..Len(timeline)
        lt(i, j) == RegionEvent_lt(timeline[i], timeline[j])
    IN /\ \A i \in N : ~lt(i, i)
       /\ \A i \in N, j \in N : lt(i, j) => ~lt(j, i)
       /\ \A i \in N, j \in N, k \in N : (lt(i, j) /\ lt(j, k)) => lt(i, k)
       /\ \A i \in N, j \in N : i # j => (lt(i, j) \/ lt(j, i))
       /\ \A i \in N, j \in N : lt(i, j) <=> Before(timeline[i], timeline[j])
       /\ \A i \in N, j \in N : i < j => lt(i, j)

C9_Witness ==
  /\ pc = "sweep"
  /\ pos = 0
  /\ \E i \in 1..Len(timeline), j \in 1..Len(timeline), k \in 1..Len(timeline) :
       /\ timeline[i].when = timeline[j].when
       /\ timeline[i].order = timeline[j].order
       /\ timeline[i].context.id = timeline[j].context.id
       /\ timeline[i].kind < timeline[j].kind
       /\ timeline[k].when = timeline[j].when
       /\ timeline[k].order = timeline[j].order
       /\ timeline[k].context.id > timeline[j].context.id

(***************************************************************************)
(* C10: `order` is -2 for Init, -1 for the End of a region of non-zero     *)
(* length on the sweep dimension, 0 for the Begin or End of a region of    *)
(* zero length, +1 for the Begin of a region of non-zero length, +2 for    *)
(* Done; Init and Done keep -2 and +2 when the bounding box has zero       *)
(* length on the sweep dimension.                                          *)
(***************************************************************************)
C10_OrderMapping ==
  Sweeping =>
    \A n \in 1..Len(timeline) :
      LET e == timeline[n]
          f == e.context.factors[sweepdim]
          zero == f.upper = f.lower
      IN /\ e.dimension = sweepdim
         /\ e.kind = KindInit => e.order = -2
         /\ e.kind = KindDone => e.order = 2
         /\ (e.kind = KindEnd /\ ~zero) => e.order = -1
         /\ (e.kind = KindBegin /\ ~zero) => e.order = 1
         /\ (e.kind \in {KindBegin, KindEnd} /\ zero) => e.order = 0

C10_Witness ==
  /\ Sweeping
  /\ {timeline[n].order : n \in 1..Len(timeline)} = {-2, -1, 0, 1, 2}
  /\ \E n \in 1..Len(timeline) : timeline[n].kind = KindBegin /\ timeline[n].order = 0
  /\ \E n \in 1..Len(timeline) : timeline[n].kind = KindEnd /\ timeline[n].order = 0

(***************************************************************************)
(* The whole sweep as a function of the region set and the sweep           *)
(* dimension: the driver's steps applied to the events in order.           *)
(***************************************************************************)
RECURSIVE run_events(_, _, _, _, _)
run_events(rs, evts, n, act, g) ==
  IF n > Len(evts) THEN g
  ELSE LET e == evts[n]
       IN IF e.kind = KindInit THEN run_events(rs, evts, n + 1, <<>>, oninit(rs))
          ELSE IF e.kind = KindBegin
            THEN run_events(rs, evts, n + 1, activate(act, e.context),
                            on_begin(g, rs, act, e.context))
          ELSE IF e.kind = KindEnd
            THEN run_events(rs, evts, n + 1, deactivate(act, e.context), g)
          ELSE run_events(rs, evts, n + 1, act, onfinalize(g))

build_intersection_graph(rs, sweep_dim) ==
  run_events(rs, events(rs, sweep_dim), 1, <<>>, EmptyGraph)

(***************************************************************************)
(* C11: for any two sweep dimensions the graphs built from one region set  *)
(* have the same nodes, the same edges and the same edge labels.           *)
(***************************************************************************)
C11_SweepDimensionIrrelevant ==
  pc = "done" =>
    \A k \in 0..(regionset.dimension - 1) :
      build_intersection_graph(regionset, k) = graph

(***************************************************************************)
(* C12: every edge {A, B} of the graph carries the region A.intersect(B),  *)
(* which is present, and whose factor on each dimension is                 *)
(* [max of the two lowers, min of the two uppers].                         *)
(***************************************************************************)
C12_EdgeLabelIsIntersection ==
  Sweeping =>
    \A p \in DOMAIN graph.edges :
      \E a \in RegionIds, b \in RegionIds :
        /\ a < b
        /\ p = {a, b}
        /\ graph.edges[p] # None
        /\ graph.edges[p] = Region_intersect(RegionOf(a), RegionOf(b), FALSE)
        /\ graph.edges[p] = Region_intersect(RegionOf(b), RegionOf(a), FALSE)
        /\ \A i \in 0..(regionset.dimension - 1) :
             LET fa == RegionOf(a).factors[i]
                 fb == RegionOf(b).factors[i]
                 f == graph.edges[p][1][i]
             IN /\ f.lower = (IF fa.lower >= fb.lower THEN fa.lower ELSE fb.lower)
                /\ f.upper = (IF fa.upper <= fb.upper THEN fa.upper ELSE fb.upper)
                /\ f.lower <= f.upper

C12_Witness ==
  /\ pc = "done"
  /\ regionset.dimension = 2
  /\ \E p \in DOMAIN graph.edges :
       graph.edges[p][1] \notin {Regions[1].factors, Regions[2].factors}

(***************************************************************************)
(* C13: the graph has exactly one node per region of the set, keyed by the *)
(* region id with the region as payload, also for regions that intersect   *)
(* nothing; the nodes exist from on_init on and no later step of the sweep *)
(* adds or removes a node; on_done returns this graph.                     *)
(***************************************************************************)
C13_OneNodePerRegion ==
  (Sweeping /\ pos >= 1) =>
    /\ DOMAIN graph.nodes = RegionIds
    /\ \A id \in RegionIds : graph.nodes[id] = Some(RegionOf(id))
    /\ Cardinality(DOMAIN graph.nodes) = Len(Regions)
    /\ pc = "done" => result = Some(graph)

C13_Witness ==
  /\ pc = "done"
  /\ Len(Regions) = 3
  /\ Cardinality(DOMAIN graph.edges) = 1
  /\ result = Some(graph)

(***************************************************************************)
(* Interval algebra as a state machine: Interval objects are constructed   *)
(* and re-assigned from two values given in either order, and the methods  *)
(* of interval.py are called on them.  ilist[1] is the receiver and        *)
(* ilist[2] the argument of a method of two intervals; the class methods   *)
(* take the whole list.                                                    *)
(***************************************************************************)
MaxValue == 3
MaxList == 3

Values == 0..MaxValue
IntervalValues == {Interval(l, u) : l \in Values, u \in Values}

Call(op, args, value) == [op |-> op, args |-> args, value |-> value]

InitInterval ==
  /\ regionset = RegionSet(1, None)
  /\ pc = "interval"
  /\ sweepdim = 0
  /\ timeline = <<>>
  /\ pos = 0
  /\ actives = <<>>
  /\ graph = EmptyGraph
  /\ candidates = <<>>
  /\ overlaps = <<>>
  /\ result = None
  /\ dispatched = None
  /\ ilist = <<>>
  /\ iout = Idle
  /\ rsout = Idle
  /\ objects_dict = <<>>
  /\ sweepline = None
  /\ frame = None

\* Interval(lower, upper)
new_Interval ==
  /\ Len(ilist) < MaxList
  /\ \E lower \in Values, upper \in Values :
       /\ ilist' = Append(ilist, Interval(lower, upper))
       /\ iout' = Call("Interval", <<lower, upper>>, Interval(lower, upper))
  /\ UNCHANGED sweepvars

\* the last interval of the list .assign(lower, upper)
assign ==
  /\ Len(ilist) >= 1
  /\ \E lower \in Values, upper \in Values :
       /\ ilist' = [ilist EXCEPT ![Len(ilist)] = Interval(lower, upper)]
       /\ iout' = Call("assign", <<lower, upper>>, Interval(lower, upper))
  /\ UNCHANGED sweepvars

\* the attribute names that are set from outside in the model
AttributeNames == {"lower", "upper", "data", "length"}

\* setattr(ilist[1], name, value)
setattr ==
  /\ Len(ilist) = 1
  /\ \E name \in AttributeNames, value \in Values :
       LET r == Interval_setattr(ilist[1], name, value)
       IN /\ ilist' = [ilist EXCEPT ![1] = r.self]
          /\ iout' = Call("__setattr__", <<name>>, r.out)
  /\ UNCHANGED sweepvars

\* ilist[1].is_intersecting(ilist[2], inc_bounds)
call_is_intersecting ==
  /\ Len(ilist) = 2
  /\ \E inc_bounds \in BOOLEAN :
       iout' = Call("is_intersecting", <<inc_bounds>>,
                    Interval_is_intersecting(ilist[1], ilist[2], inc_bounds))
  /\ UNCHANGED <<sweepvars, ilist>>

\* A.is_intersecting(B, inc_bounds) of the 2-dimensional regions
\* A = ilist[1] x ilist[2] and B = ilist[2] x ilist[3]
call_Region_is_intersecting ==
  /\ Len(ilist) = 3
  /\ \E inc_bounds \in BOOLEAN :
       LET A == Region(1, [i \in 0..1 |-> ilist[i + 1]], 1)
           B == Region(2, [i \in 0..1 |-> ilist[i + 2]], 2)
       IN iout' = Call("Region.is_intersecting", <<inc_bounds, A, B>>,
                       Region_is_intersecting(A, B, inc_bounds))
  /\ UNCHANGED <<sweepvars, ilist>>

\* ilist[1].get_intersection(ilist[2], inc_bounds)
call_get_intersection ==
  /\ Len(ilist) = 2
  /\ \E inc_bounds \in BOOLEAN :
       iout' = Call("get_intersection", <<inc_bounds>>,
                    get_intersection(ilist[1], ilist[2], inc_bounds))
  /\ UNCHANGED <<sweepvars, ilist>>

\* A.get_intersection(B).get_intersection(A) with the default inc_bounds,
\* when the first intersection is present
call_get_intersection_twice ==
  /\ Len(ilist) = 2
  /\ LET first == get_intersection(ilist[1], ilist[2], FALSE)
     IN /\ first # None
        /\ iout' = Call("get_intersection.get_intersection", <<first>>,
                        get_intersection(first[1], ilist[1], FALSE))
  /\ UNCHANGED <<sweepvars, ilist>>

\* ilist[1].get_union(ilist[2])
call_get_union ==
  /\ Len(ilist) = 2
  /\ iout' = Call("get_union", <<>>, get_union(ilist[1], ilist[2]))
  /\ UNCHANGED <<sweepvars, ilist>>

\* A.get_union(B).get_union(A)
call_get_union_twice ==
  /\ Len(ilist) = 2
  /\ LET first == get_union(ilist[1], ilist[2])
     IN iout' = Call("get_union.get_union", <<first>>, get_union(first, ilist[1]))
  /\ UNCHANGED <<sweepvars, ilist>>

\* Interval.from_union(ilist)
call_from_union ==
  /\ iout' = Call("from_union", <<>>, from_union(ilist))
  /\ UNCHANGED <<sweepvars, ilist>>

\* Interval.from_intersection(ilist)
call_from_intersection ==
  /\ iout' = Call("from_intersection", <<>>, from_intersection(ilist))
  /\ UNCHANGED <<sweepvars, ilist>>

\* Interval.to_object(ilist[1], compact = ...)
call_to_object ==
  /\ Len(ilist) = 1
  /\ \E compact \in BOOLEAN :
       iout' = Call("to_object", <<compact>>, to_object(ilist[1], compact))
  /\ UNCHANGED <<sweepvars, ilist>>

\* Interval.from_object(what to_object has just returned)
call_from_object ==
  /\ iout.op = "to_object"
  /\ iout' = Call("from_object", <<iout.value>>, from_object(iout.value))
  /\ UNCHANGED <<sweepvars, ilist>>

\* ilist[1].contains(value, inc_lower, inc_upper)
call_contains ==
  /\ Len(ilist) = 1
  /\ \E value \in Values, inc_lower \in BOOLEAN, inc_upper \in BOOLEAN :
       iout' = Call("contains", <<value, inc_lower, inc_upper>>,
                    contains(ilist[1], value, inc_lower, inc_upper))
  /\ UNCHANGED <<sweepvars, ilist>>

\* ilist[1].encloses(ilist[2], inc_lower, inc_upper)
call_encloses ==
  /\ Len(ilist) = 2
  /\ \E inc_lower \in BOOLEAN, inc_upper \in BOOLEAN :
       iout' = Call("encloses", <<inc_lower, inc_upper>>,
                    encloses(ilist[1], ilist[2], inc_lower, inc_upper))
  /\ UNCHANGED <<sweepvars, ilist>>

\* value in ilist[1], value being a number or the interval ilist[2]
call_in ==
  /\ Len(ilist) = 2
  /\ \E value \in {PyObject("float", v) : v \in Values}
                  \cup {PyObject("Interval", ilist[2])} :
       iout' = Call("__contains__", <<value>>,
                    Interval_contains_operator(ilist[1], value))
  /\ UNCHANGED <<sweepvars, ilist>>

NextInterval ==
  \/ new_Interval
  \/ assign
  \/ setattr
  \/ call_is_intersecting
  \/ call_Region_is_intersecting
  \/ call_get_intersection
  \/ call_get_intersection_twice
  \/ call_get_union
  \/ call_get_union_twice
  \/ call_from_union
  \/ call_from_intersection
  \/ call_to_object
  \/ call_from_object
  \/ call_contains
  \/ call_encloses
  \/ call_in

SpecInterval == InitInterval /\ [][NextInterval]_vars

\* the operands of the last call of a method of two intervals
OpA == ilist[1]
OpB == ilist[2]
Called(op) == iout.op = op

(***************************************************************************)
(* C14: every Interval, constructed or re-assigned from two values in      *)
(* either order, has lower <= upper and length = upper - lower >= 0; the   *)
(* smaller of the two values is its lower bound.                           *)
(***************************************************************************)
C14_LowerAtMostUpper ==
  /\ \A n \in 1..Len(ilist) :
       /\ ilist[n].lower <= ilist[n].upper
       /\ length(ilist[n]) = ilist[n].upper - ilist[n].lower
       /\ length(ilist[n]) >= 0
  /\ (Called("Interval") \/ Called("assign")) =>
       /\ iout.value = ilist[Len(ilist)]
       /\ iout.value.lower = Min2(iout.args[1], iout.args[2])
       /\ iout.value.upper = Max2(iout.args[1], iout.args[2])

C14_Witness ==
  /\ Called("assign")
  /\ iout.args[1] > iout.args[2]
  /\ Len(ilist) = 2
  /\ ilist[1].lower < ilist[1].upper
  /\ ilist[2] = [lower |-> iout.args[2], upper |-> iout.args[1]]

(***************************************************************************)
(* C15: is_intersecting is symmetric, for intervals and for regions, with  *)
(* each value of inc_bounds:                                               *)
(* A.is_intersecting(B, inc_bounds) = B.is_intersecting(A, inc_bounds).    *)
(***************************************************************************)
C15_IsIntersectingSymmetric ==
  /\ Called("is_intersecting") =>
       iout.value = Interval_is_intersecting(OpB, OpA, iout.args[1])
  /\ Called("Region.is_intersecting") =>
       iout.value = Region_is_intersecting(iout.args[3], iout.args[2], iout.args[1])

\* two regions that touch on the first dimension and overlap on the second
C15_Witness ==
  /\ Called("Region.is_intersecting")
  /\ iout.args[1] = FALSE
  /\ ilist[1].lower < ilist[1].upper
  /\ ilist[1].upper = ilist[2].lower
  /\ ilist[2].lower < ilist[2].upper
  /\ ilist[3].lower < ilist[2].lower
  /\ ilist[3].upper = ilist[2].upper
  /\ iout.value = FALSE

(***************************************************************************)
(* C16: get_intersection(A, B, inc_bounds) is absent exactly when          *)
(* is_intersecting(A, B, inc_bounds) is false; otherwise it is the         *)
(* interval [max of the lowers, min of the uppers], whose lower is at most *)
(* its upper and which is contained in both A and B.                       *)
(***************************************************************************)
C16_IntersectionBounds ==
  Called("get_intersection") =>
    /\ (iout.value = None) <=> ~Interval_is_intersecting(OpA, OpB, iout.args[1])
    /\ iout.value # None =>
         LET I == iout.value[1]
         IN /\ I.lower = Max2(OpA.lower, OpB.lower)
            /\ I.upper = Min2(OpA.upper, OpB.upper)
            /\ I.lower <= I.upper
            /\ encloses(OpA, I, TRUE, TRUE)
            /\ encloses(OpB, I, TRUE, TRUE)

\* a partial overlap: the intersection is neither operand
C16_Witness ==
  /\ Called("get_intersection")
  /\ iout.value # None
  /\ OpA.lower < OpB.lower
  /\ OpB.lower < OpA.upper
  /\ OpA.upper < OpB.upper
  /\ iout.value[1] = [lower |-> OpB.lower, upper |-> OpA.upper]

\* what is_intersecting returns for the zero-length interval [x, x] and I
\* under the statement of the design document
ZeroLengthRule(x, I, inc_bounds) == inc_bounds /\ contains(I, x, TRUE, TRUE)
\* what it returns: without the bounds, x has to lie strictly inside I, or
\* I has to be [x, x] itself
ZeroLengthCode(x, I, inc_bounds) ==
  IF inc_bounds THEN contains(I, x, TRUE, TRUE)
  ELSE I = Interval(x, x) \/ contains(I, x, FALSE, FALSE)

(***************************************************************************)
(* C17 as stated: a zero-length interval [x, x] intersects an interval I   *)
(* if and only if inc_bounds = true and I contains x; with inc_bounds =    *)
(* false it intersects no interval.                                        *)
(***************************************************************************)
C17_ZeroLengthOnlyWithBounds ==
  Called("is_intersecting") =>
    /\ length(OpA) = 0 => iout.value = ZeroLengthRule(OpA.lower, OpB, iout.args[1])
    /\ length(OpB) = 0 => iout.value = ZeroLengthRule(OpB.lower, OpA, iout.args[1])

(***************************************************************************)
(* C17 amended: with inc_bounds = true a zero-length interval [x, x]       *)
(* intersects I if and only if I contains x; with inc_bounds = false it    *)
(* intersects I if and only if I = [x, x] or x lies strictly inside I.     *)
(***************************************************************************)
C17_ZeroLengthIntersecting ==
  Called("is_intersecting") =>
    /\ length(OpA) = 0 => iout.value = ZeroLengthCode(OpA.lower, OpB, iout.args[1])
    /\ length(OpB) = 0 => iout.value = ZeroLengthCode(OpB.lower, OpA, iout.args[1])

\* [x, x] strictly inside I intersects it without the bounds
C17_Witness ==
  /\ Called("is_intersecting")
  /\ iout.args[1] = FALSE
  /\ length(OpA) = 0
  /\ OpB.lower < OpA.lower
  /\ OpA.upper < OpB.upper
  /\ iout.value = TRUE

\* the intervals [a, b] and [b, c] are the operands of the last call
Touching == Len(ilist) = 2 /\ OpA.upper = OpB.lower

(***************************************************************************)
(* C18 as stated: for all a <= b <= c, [a, b] and [b, c] are not           *)
(* intersecting with inc_bounds = false, and with inc_bounds = true they   *)
(* are intersecting with the zero-length intersection [b, b].              *)
(***************************************************************************)
C18_TouchingIntervals ==
  Touching =>
    /\ Called("is_intersecting") => iout.value = iout.args[1]
    /\ Called("get_intersection") =>
         iout.value = IF iout.args[1] THEN Some(Interval(OpA.upper, OpA.upper))
                                      ELSE None

(***************************************************************************)
(* C18 amended: for all a <= b <= c with a < c, [a, b] and [b, c] are not  *)
(* intersecting with inc_bounds = false, and with inc_bounds = true they   *)
(* are intersecting with the zero-length intersection [b, b]; for          *)
(* a = b = c the two intervals are equal and intersect with either value   *)
(* of inc_bounds, the intersection being [b, b].                           *)
(***************************************************************************)
C18_TouchingUnlessEqual ==
  Touching =>
    LET equal == OpA.lower = OpB.upper
    IN /\ Called("is_intersecting") => iout.value = (iout.args[1] \/ equal)
       /\ Called("get_intersection") =>
            iout.value = IF iout.args[1] \/ equal
                         THEN Some(Interval(OpA.upper, OpA.upper))
                         ELSE None

\* a < b < c with the bounds included: the intersection is [b, b]
C18_Witness ==
  /\ Touching
  /\ Called("get_intersection")
  /\ iout.args[1] = TRUE
  /\ OpA.lower < OpA.upper
  /\ OpB.lower < OpB.upper
  /\ iout.value = Some(Interval(OpA.upper, OpB.lower))

(***************************************************************************)
(* C19: whenever A.intersect(B) is present (inc_bounds = false),           *)
(* A.intersect(B).intersect(A) is present and has the bounds of            *)
(* A.intersect(B).                                                         *)
(***************************************************************************)
C19_IntersectionIdempotent ==
  Called("get_intersection.get_intersection") =>
    /\ iout.args[1] = get_intersection(OpA, OpB, FALSE)
    /\ iout.value # None
    /\ iout.value[1].lower = iout.args[1][1].lower
    /\ iout.value[1].upper = iout.args[1][1].upper

\* A zero-length strictly inside B: the first intersection is A itself
C19_Witness ==
  /\ Called("get_intersection.get_intersection")
  /\ length(OpA) = 0
  /\ OpB.lower < OpA.lower
  /\ OpA.upper < OpB.upper
  /\ iout.value = Some(OpA)

\* smallest lower and largest upper bound of the intervals of a list
MinLower(intervals) ==
  CHOOSE v \in {intervals[n].lower : n \in 1..Len(intervals)} :
    \A n \in 1..Len(intervals) : v <= intervals[n].lower
MaxUpper(intervals) ==
  CHOOSE v \in {intervals[n].upper : n \in 1..Len(intervals)} :
    \A n \in 1..Len(intervals) : v >= intervals[n].upper

(***************************************************************************)
(* C20: get_union(A, B), for overlapping and for disjoint A and B, is      *)
(* [min of the lowers, max of the uppers]; it encloses A and B; it is      *)
(* commutative; A.union(B).union(A) = A.union(B); from_union of a list of  *)
(* at least two intervals is the interval that encloses them all.          *)
(***************************************************************************)
C20_UnionBounds ==
  /\ Called("get_union") =>
       /\ iout.value = [lower |-> Min2(OpA.lower, OpB.lower),
                        upper |-> Max2(OpA.upper, OpB.upper)]
       /\ encloses(iout.value, OpA, TRUE, TRUE)
       /\ encloses(iout.value, OpB, TRUE, TRUE)
       /\ iout.value = get_union(OpB, OpA)
  /\ Called("get_union.get_union") =>
       /\ iout.args[1] = get_union(OpA, OpB)
       /\ iout.value = iout.args[1]
  /\ Called("from_union") =>
       IF Len(ilist) > 1
       THEN /\ iout.value = [lower |-> MinLower(ilist), upper |-> MaxUpper(ilist)]
            /\ \A n \in 1..Len(ilist) : encloses(iout.value, ilist[n], TRUE, TRUE)
       ELSE iout.value = AssertionError

\* B lies wholly below A with a gap between them
C20_Witness ==
  /\ Called("get_union")
  /\ OpB.lower < OpB.upper
  /\ OpB.upper < OpA.lower
  /\ OpA.lower < OpA.upper
  /\ iout.value = [lower |-> OpB.lower, upper |-> OpA.upper]

RECURSIVE FoldIntersection(_, _)
\* the left fold of get_intersection (inc_bounds = false) over a list:
\* absent as soon as a step meets a pair that does not intersect
FoldIntersection(acc, rest) ==
  IF rest = <<>> \/ acc = None THEN acc
  ELSE FoldIntersection(get_intersection(acc[1], Head(rest), FALSE), Tail(rest))

(***************************************************************************)
(* C21: from_intersection of a list of two or more intervals returns the   *)
(* left fold of get_intersection over the list, and returns absent, not an *)
(* error, as soon as a step of the fold meets a non-intersecting pair.     *)
(***************************************************************************)
C21_FromIntersectionIsFold ==
  (Called("from_intersection") /\ Len(ilist) > 1) =>
    /\ ~IsRaised(iout.value)
    /\ iout.value = FoldIntersection(Some(ilist[1]), Tail(ilist))

\* every Interval object of the list is still in its place, with the bounds
\* and the hash it had
BoundsKept ==
  \A n \in 1..Len(ilist) :
    /\ n <= Len(ilist')
    /\ ilist'[n] = ilist[n]
    /\ Interval_hash(ilist'[n]) = Interval_hash(ilist[n])

(***************************************************************************)
(* C22: the bounds of an Interval never change after construction: setting *)
(* lower or upper raises and leaves both bounds unchanged, and no          *)
(* operation of Interval changes the bounds or the hash of an existing     *)
(* Interval.                                                               *)
(***************************************************************************)
C22_BoundsNeverChange ==
  [][/\ BoundsKept
     /\ (iout'.op = "__setattr__" /\ iout'.args[1] \in {"lower", "upper"}) =>
          iout'.value = Raised(Exception)]_vars

(***************************************************************************)
(* C23: for every Interval i, from_object(to_object(i)) equals i, for the  *)
(* dict form {lower, upper} and for the compact tuple form (lower, upper). *)
(***************************************************************************)
C23_ObjectRoundTrip ==
  /\ Called("to_object") =>
       iout.value = IF iout.args[1]
                    THEN PyObject("tuple", <<ilist[1].lower, ilist[1].upper>>)
                    ELSE PyObject("dict", [lower |-> ilist[1].lower,
                                           upper |-> ilist[1].upper])
  /\ Called("from_object") => iout.value = ilist[1]

C23_Witness ==
  /\ Called("from_object")
  /\ iout.args[1].type = "tuple"
  /\ ilist[1].lower < ilist[1].upper
  /\ iout.value = ilist[1]

(***************************************************************************)
(* C24: contains(v, inc_lower, inc_upper) is true iff lower <= v <= upper, *)
(* the lower comparison strict when inc_lower is false and the upper one   *)
(* strict when inc_upper is false.  With the defaults both bounds and the  *)
(* midpoint are contained; a bound is excluded when its flag is false; a   *)
(* zero-length interval [x, x] contains x iff both flags are true.         *)
(***************************************************************************)
C24_ContainsValue ==
  /\ Called("contains") =>
       LET I == ilist[1]
           v == iout.args[1]
           inc_lower == iout.args[2]
           inc_upper == iout.args[3]
       IN /\ iout.value = (/\ I.lower <= v
                           /\ v <= I.upper
                           /\ inc_lower \/ I.lower # v
                           /\ inc_upper \/ I.upper # v)
          /\ (inc_lower /\ inc_upper /\ v \in {I.lower, I.upper}) => iout.value
          /\ (inc_lower /\ inc_upper /\ 2 * v = I.lower + I.upper) => iout.value
          /\ (~inc_lower /\ v = I.lower) => ~iout.value
          /\ (~inc_upper /\ v = I.upper) => ~iout.value
          /\ (length(I) = 0 /\ v = I.lower) => (iout.value = (inc_lower /\ inc_upper))
  /\ (Called("__contains__") /\ iout.args[1].type = "float") =>
       iout.value = (OpA.lower <= iout.args[1].data /\ iout.args[1].data <= OpA.upper)

\* the upper bound of a non-zero-length interval, upper bound excluded
C24_Witness ==
  /\ Called("contains")
  /\ ilist[1].lower < ilist[1].upper
  /\ iout.args = <<ilist[1].upper, TRUE, FALSE>>
  /\ iout.value = FALSE

(***************************************************************************)
(* C25: encloses(that, inc_lower, inc_upper) is true iff                   *)
(* self.length >= that.length and that.lower and that.upper are both       *)
(* contained in self under the flags; with the default flags this is       *)
(* self.lower <= that.lower and that.upper <= self.upper, so every         *)
(* interval encloses itself.                                               *)
(***************************************************************************)
C25_EnclosesInterval ==
  /\ Called("encloses") =>
       LET inc_lower == iout.args[1]
           inc_upper == iout.args[2]
       IN /\ iout.value = (/\ length(OpA) >= length(OpB)
                           /\ contains(OpA, OpB.lower, inc_lower, inc_upper)
                           /\ contains(OpA, OpB.upper, inc_lower, inc_upper))
          /\ (inc_lower /\ inc_upper) =>
               /\ iout.value = (OpA.lower <= OpB.lower /\ OpB.upper <= OpA.upper)
               /\ OpA = OpB => iout.value
  /\ (Called("__contains__") /\ iout.args[1].type = "Interval") =>
       /\ iout.value = (OpA.lower <= OpB.lower /\ OpB.upper <= OpA.upper)
       /\ OpA = OpB => iout.value

\* an interval encloses itself with the default flags
C25_Witness ==
  /\ Called("encloses")
  /\ iout.args = <<TRUE, TRUE>>
  /\ OpA = OpB
  /\ OpA.lower < OpA.upper
  /\ iout.value = TRUE

(***************************************************************************)
(* RegionSet as a state machine: a set of one or two dimensions, with or   *)
(* without bounds, is built by add, which may fail, and is read.           *)
(***************************************************************************)
MaxSetCoord == 1

SetCoords == 0..MaxSetCoord
SetIntervals == {Interval(l, u) : l \in SetCoords, u \in SetCoords}
\* how many regions a set of dimension d may hold, and the identifiers used
SetCap(d) == IF d = 1 THEN 3 ELSE 2
SetIds(d) == 1..SetCap(d)
\* the factors of the bounds a set may be given
BoundsIntervals == {Interval(0, 0), Interval(0, 1)}
\* the regions of dimension d that are offered to a set of dimension setdim
RegionPool(setdim, d, ref) ==
  {Region(id, factors, ref) : id \in SetIds(setdim),
                              factors \in [0..(d - 1) -> SetIntervals]}

InitRegionSet ==
  /\ \E d \in Dimensions :
       \E bounds \in {None} \cup {Some(Region(BBoxId, factors, BBoxRef)) :
                                    factors \in [0..(d - 1) -> BoundsIntervals]} :
         regionset = RegionSet(d, bounds)
  /\ pc = "regionset"
  /\ sweepdim = 0
  /\ timeline = <<>>
  /\ pos = 0
  /\ actives = <<>>
  /\ graph = EmptyGraph
  /\ candidates = <<>>
  /\ overlaps = <<>>
  /\ result = None
  /\ dispatched = None
  /\ ilist = <<>>
  /\ iout = Idle
  /\ rsout = Idle
  /\ objects_dict = <<>>
  /\ sweepline = None
  /\ frame = None

setframe == <<pc, sweepdim, timeline, pos, actives, graph, candidates,
              overlaps, result, dispatched, ilist, iout, objects_dict,
              sweepline, frame>>

\* regionset.add(region), with a region of any dimension and identifier
rs_add ==
  /\ Len(regionset.regions) < SetCap(regionset.dimension)
  /\ \E d \in Dimensions :
       \E region \in RegionPool(regionset.dimension, d,
                                   Len(regionset.regions) + 1) :
         LET r == RegionSet_add(regionset, region)
         IN /\ regionset' = r.rs
            /\ rsout' = Call("add", <<region>>, r.out)
  /\ UNCHANGED setframe

\* regionset.size
rs_size ==
  /\ rsout' = Call("size", <<>>, RegionSet_size(regionset))
  /\ UNCHANGED <<regionset, setframe>>

\* list(regionset): the enumeration
rs_iter ==
  /\ rsout' = Call("iter", <<>>, regionset.regions)
  /\ UNCHANGED <<regionset, setframe>>

\* regionset[i] for an index in range, regionset[id] for the id of a member
rs_getitem ==
  /\ \E key \in {PyObject("int", i) : i \in 0..(Len(regionset.regions) - 1)}
                \cup {PyObject("str", id) : id \in RegionSet_ids(regionset)} :
       rsout' = Call("getitem", <<key>>, RegionSet_getitem(regionset, key))
  /\ UNCHANGED <<regionset, setframe>>

\* region in regionset for a member, id in regionset for any identifier
rs_contains ==
  /\ \E value \in {PyObject("Region", regionset.regions[n]) :
                     n \in 1..Len(regionset.regions)}
                  \cup {PyObject("str", id) : id \in SetIds(regionset.dimension)} :
       rsout' = Call("contains", <<value>>, RegionSet_contains(regionset, value))
  /\ UNCHANGED <<regionset, setframe>>

\* regionset.minbounds of a non-empty set
rs_minbounds ==
  /\ Len(regionset.regions) >= 1
  /\ rsout' = Call("minbounds", <<>>, bbox(regionset))
  /\ UNCHANGED <<regionset, setframe>>

NextRegionSet ==
  \/ rs_add
  \/ rs_size
  \/ rs_iter
  \/ rs_getitem
  \/ rs_contains
  \/ rs_minbounds

SpecRegionSet == InitRegionSet /\ [][NextRegionSet]_vars

SetCalled(op) == rsout.op = op
Members == {regionset.regions[n] : n \in 1..Len(regionset.regions)}
\* on every dimension the factor of inner lies within the factor of outer
Within(outer, inner) ==
  \A i \in DOMAIN outer.factors :
    /\ outer.factors[i].lower <= inner.factors[i].lower
    /\ inner.factors[i].upper <= outer.factors[i].upper

(***************************************************************************)
(* C26: after any sequence of adds on a RegionSet of dimension d every     *)
(* member has dimension d; an add of a region of another dimension fails   *)
(* with an error and does not add the region.                              *)
(***************************************************************************)
C26_OneDimension ==
  /\ \A r \in Members : Region_dimension(r) = regionset.dimension
  /\ (SetCalled("add") /\ Region_dimension(rsout.args[1]) # regionset.dimension) =>
       /\ rsout.value = Raised(DimensionMismatch)
       /\ rsout.args[1] \notin Members

C26_Witness ==
  /\ SetCalled("add")
  /\ rsout.value = Raised(DimensionMismatch)
  /\ regionset.dimension = 2
  /\ Len(regionset.regions) = 1

(***************************************************************************)
(* C27: after any sequence of adds on a RegionSet with bounds, the bounds  *)
(* enclose every member and enclose minbounds; an add of a region that the *)
(* bounds do not enclose fails with an error and does not add the region.  *)
(***************************************************************************)
C27_WithinBounds ==
  regionset.bounds # None =>
    /\ \A r \in Members : Within(regionset.bounds[1], r)
    /\ Len(regionset.regions) >= 1 => Within(regionset.bounds[1], bbox(regionset))
    /\ (/\ SetCalled("add")
        /\ Region_dimension(rsout.args[1]) = regionset.dimension
        /\ ~Within(regionset.bounds[1], rsout.args[1])) =>
         /\ rsout.value = Raised(OutOfBounds)
         /\ rsout.args[1] \notin Members

C27_Witness ==
  /\ regionset.bounds # None
  /\ regionset.dimension = 2
  /\ Len(regionset.regions) = 1
  /\ SetCalled("add")
  /\ rsout.value = Raised(OutOfBounds)
  /\ rsout.args[1].factors[0] = regionset.regions[1].factors[0]

(***************************************************************************)
(* C28: the bounding box (minbounds) of a non-empty RegionSet has on each  *)
(* dimension the smallest lower bound and the largest upper bound of the   *)
(* members; it encloses every member, and every region that encloses every *)
(* member encloses it.                                                     *)
(***************************************************************************)
C28_MinboundsIsSmallestBox ==
  SetCalled("minbounds") =>
    /\ \A i \in 0..(regionset.dimension - 1) :
         /\ \E r \in Members : rsout.value.factors[i].lower = r.factors[i].lower
         /\ \E r \in Members : rsout.value.factors[i].upper = r.factors[i].upper
         /\ \A r \in Members :
              /\ rsout.value.factors[i].lower <= r.factors[i].lower
              /\ rsout.value.factors[i].upper >= r.factors[i].upper
    /\ \A r \in Members : Region_encloses(rsout.value, r)
    /\ \A factors \in [0..(regionset.dimension - 1) -> SetIntervals] :
         (\A r \in Members : Within(Region(BBoxId, factors, BBoxRef), r)) =>
           Within(Region(BBoxId, factors, BBoxRef), rsout.value)

\* two members of a 2-dimensional set, neither of which is the bounding box
C28_Witness ==
  /\ SetCalled("minbounds")
  /\ regionset.dimension = 2
  /\ Len(regionset.regions) = 2
  /\ \A r \in Members : \A i \in 0..1 : rsout.value.factors[i] # r.factors[i]

\* the outcome of the operation that has just been performed agrees with
\* the set before and after it
SetStep ==
  /\ (rsout'.op = "add" /\ rsout'.value = None) =>
       /\ rsout'.args[1].id \notin RegionSet_ids(regionset)
       /\ regionset'.regions = Append(regionset.regions, rsout'.args[1])
  /\ (rsout'.op = "add" /\ rsout'.args[1].id \in RegionSet_ids(regionset)) =>
       /\ IsRaised(rsout'.value)
       /\ regionset' = regionset
  /\ rsout'.op = "size" => rsout'.value = Len(regionset'.regions)
  /\ rsout'.op = "iter" => rsout'.value = regionset'.regions
  /\ (rsout'.op = "getitem" /\ rsout'.args[1].type = "int") =>
       rsout'.value = regionset'.regions[rsout'.args[1].data + 1]
  /\ (rsout'.op = "getitem" /\ rsout'.args[1].type = "str") =>
       /\ rsout'.value.id = rsout'.args[1].data
       /\ \E n \in 1..Len(regionset'.regions) : rsout'.value = regionset'.regions[n]
  /\ (rsout'.op = "contains" /\ rsout'.args[1].type = "Region") => rsout'.value
  /\ (rsout'.op = "contains" /\ rsout'.args[1].type = "str") =>
       rsout'.value = (\E n \in 1..Len(regionset'.regions) :
                         regionset'.regions[n].id = rsout'.args[1].data)

(***************************************************************************)
(* C29: an add with a new id appends the region, so after adding           *)
(* r_0 .. r_(n-1) with distinct ids the set has size n and enumerates them *)
(* in that order; lookup by index i returns r_i, lookup by id returns the  *)
(* region with that id, each region and each id is a member; an add with   *)
(* an id already present is rejected.                                      *)
(***************************************************************************)
C29_InsertionOrderAndLookup == [][SetStep]_vars

\* the third region of a set is looked up by its identifier
C29_Witness ==
  /\ Len(regionset.regions) = 3
  /\ SetCalled("getitem")
  /\ rsout.args[1] = PyObject("str", regionset.regions[3].id)
  /\ rsout.value = regionset.regions[3]
  /\ regionset.regions[3].id < regionset.regions[1].id

\* the groups of the events that share one `when`, in the order stated:
\* Init, End of a non-zero-length region, Begin or End of a zero-length
\* region, Begin of a non-zero-length region, Done
EventGroup(e) ==
  IF e.kind = KindInit THEN 0
  ELSE IF e.kind = KindDone THEN 4
  ELSE IF length(e.context.factors[e.dimension]) = 0 THEN 2
  ELSE IF e.kind = KindEnd THEN 1
  ELSE 3

(***************************************************************************)
(* C30: among the events that share one `when` the sorted sequence is Init *)
(* (if any), the Ends of non-zero-length regions, for each zero-length     *)
(* region in ascending id its Begin immediately followed by its own End,   *)
(* the Begins of non-zero-length regions, Done (if any); so two distinct   *)
(* regions that are zero-length at the same sweep position are never       *)
(* active at the same time.                                                *)
(***************************************************************************)
C30_OrderWithinOneWhen ==
  Sweeping =>
    /\ \A m, n \in 1..Len(timeline) :
         (m < n /\ timeline[m].when = timeline[n].when) =>
           /\ EventGroup(timeline[m]) <= EventGroup(timeline[n])
           /\ (EventGroup(timeline[m]) = 2 /\ EventGroup(timeline[n]) = 2) =>
                timeline[m].context.id <= timeline[n].context.id
    /\ \A id \in RegionIds :
         ZeroLength(id) =>
           \E n \in 1..(Len(timeline) - 1) :
             /\ timeline[n].kind = KindBegin
             /\ timeline[n].context.id = id
             /\ timeline[n + 1].kind = KindEnd
             /\ timeline[n + 1].context.id = id
    /\ \A a, b \in ActiveIds :
         (a # b /\ ZeroLength(a) /\ ZeroLength(b)) => Proj(a) # Proj(b)

\* two zero-length regions at the position where a non-zero-length region
\* ends, the sweep finished
C30_Witness ==
  /\ pc = "done"
  /\ Len(Regions) = 3
  /\ ZeroLength(1)
  /\ ZeroLength(3)
  /\ Proj(1) = Proj(3)
  /\ ~ZeroLength(2)
  /\ Proj(2).upper = Proj(1).lower

\* the candidate pairs so far whose regions intersect on every dimension
IntersectingCandidates ==
  {{candidates[n][1], candidates[n][2]} : n \in
     {k \in 1..Len(candidates) :
        \A i \in 0..(regionset.dimension - 1) :
          LET a == RegionOf(candidates[k][1]).factors[i]
              r == RegionOf(candidates[k][2]).factors[i]
          IN a = r \/ (a.upper > r.lower /\ r.upper > a.lower)}}

(***************************************************************************)
(* C31: in dimension d > 1 the observer adds the edge {A.id, R.id} for a   *)
(* candidate pair (A, R) only if A.is_intersecting(R, inc_bounds = false)  *)
(* holds and otherwise leaves nodes, edges and labels as they are: the     *)
(* edges are those of the intersecting candidates, the nodes those of      *)
(* on_init.  Two rectangles that overlap on the sweep axis and are         *)
(* disjoint on the other axis give one candidate and no edge.              *)
(***************************************************************************)
C31_RejectedCandidateLeavesGraph ==
  (Sweeping /\ pos >= 1 /\ regionset.dimension > 1) =>
    /\ DOMAIN graph.edges = IntersectingCandidates
    /\ graph.nodes = oninit(regionset).nodes
    /\ \A p \in DOMAIN graph.edges : graph.edges[p] # None
    /\ IntersectingCandidates = {} => graph = oninit(regionset)

\* overlapping on the sweep axis, disjoint on the other: one candidate
C31_Witness ==
  /\ pc = "done"
  /\ regionset.dimension = 2
  /\ Len(candidates) = 1
  /\ Proj(1).lower < Proj(2).upper
  /\ Proj(2).lower < Proj(1).upper
  /\ Regions[1].factors[1 - sweepdim].upper < Regions[2].factors[1 - sweepdim].lower
  /\ graph.edges = EmptyGraph.edges

\* the callback dispatched last was `callback`
Dispatched(callback) ==
  dispatched # None /\ dispatched[1].callback = callback

\* the identifiers in the active set the last callback received
Received == {dispatched[1].active_set[i] : i \in 1..Len(dispatched[1].active_set)}

(***************************************************************************)
(* C32: for every End(R) the driver removes R from the active set and      *)
(* only then dispatches on_end(R, active_set): the set on_end receives is  *)
(* the active set after the removal and never holds R.  on_begin and       *)
(* on_candidate for R receive an active set that does not yet hold R.      *)
(***************************************************************************)
C32_RemovedBeforeOnEnd ==
  /\ Dispatched("on_end") =>
       /\ dispatched[1].region \notin Received
       /\ Received = ActiveIds
       /\ dispatched[1].region \in Ended
  /\ Dispatched("on_begin") =>
       /\ dispatched[1].region \notin Received
       /\ Received = ActiveIds \ {dispatched[1].region}
       /\ dispatched[1].region \in ActiveIds

\* on_end received a non-empty active set, after an on_begin that received one
C32_Witness ==
  /\ Dispatched("on_end")
  /\ Received # {}
  /\ Len(candidates) >= 1

(***************************************************************************)
(* Legacy sweep  (algorithm.py)                                            *)
(*                                                                         *)
(* Dictionaries are functions on their keys; a dictionary that the code    *)
(* iterates is a sequence in insertion order.  The objects of the          *)
(* generator are keyed by their id_.                                       *)
(***************************************************************************)
MaxPoint == 5
Points == 0..MaxPoint

\* as many objects as can have pairwise distinct end points
MaxObjects == (MaxPoint + 1) \div 2

\* shapes.IntervalObject: start <= end
IntervalObject(id_, start, end) == [id_ |-> id_, start |-> start, end |-> end]

\* nx.Graph(), add_node(n), add_edge(u, v)
Graph == [nodes |-> {}, edges |-> {}]
Graph_add_node(g, n) == [g EXCEPT !.nodes = @ \cup {n}]
Graph_add_edge(g, u, v) ==
  [nodes |-> g.nodes \cup {u, v}, edges |-> g.edges \cup {{u, v}}]

\* Sweepline.__init__
Sweepline(generator) ==
  [generator |-> generator, graph |-> Graph,
   points_dict |-> <<>>, points_list |-> <<>>, final_overlaps |-> <<>>]

\* alternative that files a new entry in front of the entries of its point
points_dict_prepend(points_dict, point, object, type) ==
  IF point \in DOMAIN points_dict
  THEN [points_dict EXCEPT ![point] = <<[object |-> object, type |-> type]>> \o @]
  ELSE (point :> <<[object |-> object, type |-> type]>>) @@ points_dict

\* `if point not in points_dict.keys(): points_dict[point] = []`, then
\* `points_dict[point].append({"object": object, "type": type})`
points_dict_append(points_dict, point, object, type) ==
  IF point \in DOMAIN points_dict
  THEN [points_dict EXCEPT ![point] = Append(@, [object |-> object, type |-> type])]
  ELSE (point :> <<[object |-> object, type |-> type]>>) @@ points_dict

\* sorted(points_dict.keys()): the keys are distinct numbers
RECURSIVE sorted_keys(_)
sorted_keys(keys) ==
  IF keys = {} THEN <<>>
  ELSE LET least == CHOOSE k \in keys : \A other \in keys : k <= other
       IN <<least>> \o sorted_keys(keys \ {least})

\* IntervalSweepline.__init__, the loop over generator.objects_dict.values()
RECURSIVE IntervalSweepline_points(_, _)
IntervalSweepline_points(self, objects) ==
  IF objects = <<>> THEN self
  ELSE LET interval == Head(objects)
           started == points_dict_append(self.points_dict, interval.start,
                                         interval, "start")
           ended == points_dict_append(started, interval.end, interval, "end")
       IN IntervalSweepline_points(
            [self EXCEPT !.graph = Graph_add_node(@, interval.id_),
                         !.points_dict = ended],
            Tail(objects))

\* IntervalSweepline.__init__
IntervalSweepline(generator) ==
  LET self == IntervalSweepline_points(Sweepline(generator), generator)
  IN [self EXCEPT !.points_list = sorted_keys(DOMAIN self.points_dict)]

\* dictionary equality
DictEq(a, b) == DOMAIN a = DOMAIN b /\ \A k \in DOMAIN a : a[k] = b[k]

\* list.remove(x): the first item equal to x goes
list_remove(list, x) ==
  LET first == CHOOSE i \in 1..Len(list) :
                 /\ DictEq(list[i], x)
                 /\ \A j \in 1..(i - 1) : ~DictEq(list[j], x)
  IN SubSeq(list, 1, first - 1) \o SubSeq(list, first + 1, Len(list))

\* active[object.id_] = object
dict_set(active, object) ==
  IF \E i \in 1..Len(active) : active[i].id_ = object.id_
  THEN [i \in 1..Len(active) |-> IF active[i].id_ = object.id_ THEN object ELSE active[i]]
  ELSE Append(active, object)

\* del active[object.id_]
dict_del(active, object) == SelectSeq(active, LAMBDA o : o.id_ # object.id_)

\* the overlaps of the new interval with every active interval
new_interval_overlaps(interval_object, active_intervals, current_point) ==
  [i \in 1..Len(active_intervals) |->
     ("1" :> interval_object.id_) @@ ("2" :> active_intervals[i].id_)
       @@ ("start" :> current_point)]

\* alternative that ends only the first overlap it meets
RECURSIVE IntervalSweepline_terminate_one(_, _, _, _)
IntervalSweepline_terminate_one(st, index, id_, current_point) ==
  IF index < 1 \/ index > Len(st.active_overlaps) THEN st
  ELSE LET overlap == st.active_overlaps[index]
       IN IF overlap["1"] = id_ \/ overlap["2"] = id_
          THEN LET ended == ("length" :> (current_point - overlap["start"])) @@ overlap
                   marked == [st.active_overlaps EXCEPT ![index] = ended]
               IN [active_overlaps |-> list_remove(marked, ended),
                   final_overlaps |-> Append(st.final_overlaps, ended),
                   graph |-> Graph_add_edge(st.graph, ended["1"], ended["2"])]
          ELSE IntervalSweepline_terminate_one(st, index - 1, id_, current_point)

\* `for overlap in reversed(active_overlaps)`: the overlaps of the ending
\* interval get their length, become edges and move to final_overlaps; the
\* reversed iterator stops when its index is past the end of the list
RECURSIVE IntervalSweepline_terminate(_, _, _, _)
IntervalSweepline_terminate(st, index, id_, current_point) ==
  IF index < 1 \/ index > Len(st.active_overlaps) THEN st
  ELSE LET overlap == st.active_overlaps[index]
       IN IF overlap["1"] = id_ \/ overlap["2"] = id_
          THEN LET ended == ("length" :> (current_point - overlap["start"])) @@ overlap
                   marked == [st.active_overlaps EXCEPT ![index] = ended]
               IN IntervalSweepline_terminate(
                    [active_overlaps |-> list_remove(marked, ended),
                     final_overlaps |-> Append(st.final_overlaps, ended),
                     graph |-> Graph_add_edge(st.graph, ended["1"], ended["2"])],
                    index - 1, id_, current_point)
          ELSE IntervalSweepline_terminate(st, index - 1, id_, current_point)

\* the local variables of run when its loop starts
run_locals ==
  [active |-> <<>>, active_overlaps |-> <<>>, point |-> 1, item |-> 1]

\* the loop position after one more item of the current point
advance(self, locals) ==
  IF locals.item < Len(self.points_dict[self.points_list[locals.point]])
  THEN [locals EXCEPT !.item = @ + 1]
  ELSE [locals EXCEPT !.point = @ + 1, !.item = 1]

\* IntervalSweepline.run, the body of the inner loop for one point_interval
IntervalSweepline_run_body(self, locals) ==
  LET current_point == self.points_list[locals.point]
      point_interval == self.points_dict[current_point][locals.item]
      interval_object == point_interval.object
  IN IF point_interval.type = "start"
     THEN [self |-> self,
           locals |-> advance(self,
             [locals EXCEPT
                !.active_overlaps = @ \o new_interval_overlaps(
                                      interval_object, locals.active, current_point),
                !.active = dict_set(@, interval_object)])]
     ELSE LET remaining == dict_del(locals.active, interval_object)
              st == IntervalSweepline_terminate(
                      [active_overlaps |-> locals.active_overlaps,
                       final_overlaps |-> self.final_overlaps,
                       graph |-> self.graph],
                      Len(locals.active_overlaps), interval_object.id_, current_point)
          IN [self |-> [self EXCEPT !.final_overlaps = st.final_overlaps,
                                    !.graph = st.graph],
              locals |-> advance(self,
                [locals EXCEPT !.active = remaining,
                               !.active_overlaps = st.active_overlaps])]

\* IntervalSweepline.run from a loop position to the end of the loop
RECURSIVE IntervalSweepline_run_from(_, _)
IntervalSweepline_run_from(self, locals) ==
  IF locals.point > Len(self.points_list) THEN [self |-> self, locals |-> locals]
  ELSE LET next == IntervalSweepline_run_body(self, locals)
       IN IntervalSweepline_run_from(next.self, next.locals)

\* IntervalSweepline(generator).run()
IntervalSweepline_run(generator) ==
  IntervalSweepline_run_from(IntervalSweepline(generator), run_locals)

(***************************************************************************)
(* The legacy interval sweep as a state machine: the generator receives    *)
(* its intervals, the sweep-line object is constructed, run starts and     *)
(* handles one entry of points_dict per step.                              *)
(***************************************************************************)
legacyframe == <<regionset, sweepdim, timeline, pos, actives, graph, candidates,
                 overlaps, result, dispatched, ilist, iout, rsout>>

InitIntervalSweepline ==
  /\ regionset = RegionSet(1, None)
  /\ pc = "generate"
  /\ sweepdim = 0
  /\ timeline = <<>>
  /\ pos = 0
  /\ actives = <<>>
  /\ graph = EmptyGraph
  /\ candidates = <<>>
  /\ overlaps = <<>>
  /\ result = None
  /\ dispatched = None
  /\ ilist = <<>>
  /\ iout = Idle
  /\ rsout = Idle
  /\ objects_dict = <<>>
  /\ sweepline = None
  /\ frame = None

\* the generator stores one more interval
generate_interval ==
  /\ pc = "generate"
  /\ Len(objects_dict) < MaxObjects
  /\ \E start \in Points : \E end \in Points :
       /\ start <= end
       /\ objects_dict' = Append(objects_dict,
                                 IntervalObject(Len(objects_dict) + 1, start, end))
  /\ UNCHANGED <<pc, sweepline, frame, legacyframe>>

\* algorithm = IntervalSweepline(generator)
new_IntervalSweepline ==
  /\ pc = "generate"
  /\ sweepline' = Some(IntervalSweepline(objects_dict))
  /\ pc' = "constructed"
  /\ UNCHANGED <<objects_dict, frame, legacyframe>>

\* algorithm.run(), up to the loop
IntervalSweepline_run_start ==
  /\ pc = "constructed"
  /\ sweepline' = Some([sweepline[1] EXCEPT !.final_overlaps = <<>>])
  /\ frame' = Some(run_locals)
  /\ pc' = IF sweepline[1].points_list = <<>> THEN "finished" ELSE "run"
  /\ UNCHANGED <<objects_dict, legacyframe>>

\* algorithm.run(), one pass of the inner loop
IntervalSweepline_run_step ==
  /\ pc = "run"
  /\ LET next == IntervalSweepline_run_body(sweepline[1], frame[1])
     IN /\ sweepline' = Some(next.self)
        /\ frame' = Some(next.locals)
        /\ pc' = IF next.locals.point > Len(next.self.points_list)
                 THEN "finished" ELSE "run"
  /\ UNCHANGED <<objects_dict, legacyframe>>

NextIntervalSweepline ==
  \/ generate_interval
  \/ new_IntervalSweepline
  \/ IntervalSweepline_run_start
  \/ IntervalSweepline_run_step

SpecIntervalSweepline == InitIntervalSweepline /\ [][NextIntervalSweepline]_vars

\* the pairs of identifiers of a list of overlaps
OverlapPairs(list) == {{list[n]["1"], list[n]["2"]} : n \in 1..Len(list)}

\* no two end points of distinct intervals coincide
DistinctEndpoints(objects) ==
  \A i, j \in 1..Len(objects) :
    i # j => {objects[i].start, objects[i].end} \cap
             {objects[j].start, objects[j].end} = {}

\* the unordered pairs of intervals whose ranges have a point in common
OverlappingPairs(objects) ==
  {{objects[i].id_, objects[j].id_} : <<i, j>> \in
     {q \in (1..Len(objects)) \X (1..Len(objects)) :
        /\ q[1] < q[2]
        /\ Max2(objects[q[1]].start, objects[q[2]].start)
             <= Min2(objects[q[1]].end, objects[q[2]].end)}}

ObjectOf(id_) == objects_dict[id_]

(***************************************************************************)
(* C33: IntervalSweepline.run on an input in which no two end points of    *)
(* distinct intervals coincide: when run has finished no interval and no   *)
(* overlap is active, final_overlaps has exactly one entry for each        *)
(* unordered pair of intervals whose ranges overlap and none for another   *)
(* pair, the graph has exactly those edges (and every interval as a       *)
(* node), and the length of each entry is min(the two ends) - max(the two  *)
(* starts).                                                                *)
(***************************************************************************)
C33_IntervalSweeplineResult ==
  (pc = "finished" /\ DistinctEndpoints(objects_dict)) =>
    /\ frame[1].active = <<>>
    /\ frame[1].active_overlaps = <<>>
    /\ OverlapPairs(sweepline[1].final_overlaps) = OverlappingPairs(objects_dict)
    /\ Len(sweepline[1].final_overlaps) = Cardinality(OverlappingPairs(objects_dict))
    /\ sweepline[1].graph.edges = OverlappingPairs(objects_dict)
    /\ sweepline[1].graph.nodes = {objects_dict[i].id_ : i \in 1..Len(objects_dict)}
    /\ \A n \in 1..Len(sweepline[1].final_overlaps) :
         LET entry == sweepline[1].final_overlaps[n]
         IN entry["length"] =
              Min2(ObjectOf(entry["1"]).end, ObjectOf(entry["2"]).end)
                - Max2(ObjectOf(entry["1"]).start, ObjectOf(entry["2"]).start)

\* three intervals with distinct end points, one overlapping both others,
\* which do not overlap each other
C33_Witness ==
  /\ pc = "finished"
  /\ DistinctEndpoints(objects_dict)
  /\ Len(objects_dict) = 3
  /\ Len(sweepline[1].final_overlaps) = 2
  /\ \E n \in 1..2 : sweepline[1].final_overlaps[n]["length"] >= 2

\* the orders in which objects_dict can store the same objects
Reorderings(objects) ==
  {[i \in 1..Len(objects) |-> objects[f[i]]] : f \in Permutations(1..Len(objects))}

(***************************************************************************)
(* C34: the edges of the graph and the pairs of final_overlaps that        *)
(* IntervalSweepline produces depend only on the set of intervals and not  *)
(* on the order in which objects_dict stores them, also when one interval  *)
(* ends where another starts.                                              *)
(***************************************************************************)
C34_OrderOfObjectsIrrelevant ==
  pc = "finished" =>
    \A reordered \in Reorderings(objects_dict) :
      LET other == IntervalSweepline_run(reordered).self
      IN /\ other.graph.edges = sweepline[1].graph.edges
         /\ OverlapPairs(other.final_overlaps) = OverlapPairs(sweepline[1].final_overlaps)

(***************************************************************************)
(* Legacy rectangle sweep  (algorithm.py, RectangleSweepline)              *)
(***************************************************************************)
MaxX == 2
MaxY == 3

\* shapes.RectangleObject: x1 < x2 and y1 < y2
RectangleObject(id_, x1, x2, y1, y2) ==
  [id_ |-> id_, x1 |-> x1, x2 |-> x2, y1 |-> y1, y2 |-> y2]

\* RectangleSweepline.__init__, the loop over generator.objects_dict.values()
RECURSIVE RectangleSweepline_points(_, _)
RectangleSweepline_points(self, objects) ==
  IF objects = <<>> THEN self
  ELSE LET rectangle == Head(objects)
           started == points_dict_append(self.points_dict, rectangle.x1,
                                         rectangle, "start")
           ended == points_dict_append(started, rectangle.x2, rectangle, "end")
       IN RectangleSweepline_points(
            [self EXCEPT !.graph = Graph_add_node(@, rectangle.id_),
                         !.points_dict = ended],
            Tail(objects))

\* RectangleSweepline.__init__
RectangleSweepline(generator) ==
  LET self == RectangleSweepline_points(Sweepline(generator), generator)
  IN [self EXCEPT !.points_list = sorted_keys(DOMAIN self.points_dict)]

\* _check_overlaps, the if/elif chain: the value of overlap_length after it
y_overlap_length(new_rect, possible_rect, overlap_length) ==
  IF /\ new_rect.y1 > possible_rect.y1
     /\ new_rect.y1 < possible_rect.y2
     /\ new_rect.y2 > possible_rect.y2
  THEN possible_rect.y2 - new_rect.y1
  ELSE IF /\ new_rect.y1 < possible_rect.y1
          /\ new_rect.y2 > possible_rect.y1
          /\ new_rect.y2 < possible_rect.y2
  THEN new_rect.y2 - possible_rect.y1
  ELSE IF /\ new_rect.y1 < possible_rect.y1
          /\ new_rect.y2 > possible_rect.y2
  THEN new_rect.y2 - new_rect.y1
  ELSE IF /\ new_rect.y1 > possible_rect.y1
          /\ new_rect.y2 < possible_rect.y2
  THEN possible_rect.y2 - possible_rect.y1
  ELSE overlap_length

\* _check_overlaps, the loop over active_rects.values(): overlap_length is
\* set before the loop and keeps its value from one rectangle to the next
RECURSIVE check_overlaps_loop(_, _, _, _, _)
check_overlaps_loop(new_rect, active_rects, current_point, overlap_length, new_overlaps) ==
  IF active_rects = <<>> THEN new_overlaps
  ELSE LET possible_rect == Head(active_rects)
           found == y_overlap_length(new_rect, possible_rect, overlap_length)
       IN check_overlaps_loop(new_rect, Tail(active_rects), current_point, found,
            IF found > 0
            THEN Append(new_overlaps,
                   ("1" :> possible_rect.id_) @@ ("2" :> new_rect.id_)
                     @@ ("y_length" :> found) @@ ("x_start" :> current_point))
            ELSE new_overlaps)

\* RectangleSweepline._check_overlaps
RectangleSweepline_check_overlaps(new_rect, active_rects, current_point) ==
  check_overlaps_loop(new_rect, active_rects, current_point, 0, <<>>)

\* `for overlap in reversed(active_overlaps)` of RectangleSweepline.run
RECURSIVE RectangleSweepline_terminate(_, _, _, _)
RectangleSweepline_terminate(st, index, id_, current_point) ==
  IF index < 1 \/ index > Len(st.active_overlaps) THEN st
  ELSE LET overlap == st.active_overlaps[index]
       IN IF overlap["1"] = id_ \/ overlap["2"] = id_
          THEN LET x_length == current_point - overlap["x_start"]
                   ended == ("x_length" :> x_length)
                              @@ ("area" :> (x_length * overlap["y_length"]))
                              @@ overlap
                   marked == [st.active_overlaps EXCEPT ![index] = ended]
               IN RectangleSweepline_terminate(
                    [active_overlaps |-> list_remove(marked, ended),
                     final_overlaps |-> Append(st.final_overlaps, ended),
                     graph |-> Graph_add_edge(st.graph, ended["1"], ended["2"])],
                    index - 1, id_, current_point)
          ELSE RectangleSweepline_terminate(st, index - 1, id_, current_point)

\* the dicts of `list` are the objects that `active_overlaps += new_overlaps`
\* put into active_overlaps (one object per pair of rectangles): what the
\* terminating loop writes into them shows in every list that holds them
shared_overlaps(list, ended) ==
  [i \in 1..Len(list) |->
     IF \E n \in 1..Len(ended) :
          ended[n]["1"] = list[i]["1"] /\ ended[n]["2"] = list[i]["2"]
     THEN ended[CHOOSE n \in 1..Len(ended) :
                  ended[n]["1"] = list[i]["1"] /\ ended[n]["2"] = list[i]["2"]]
     ELSE list[i]]

\* the local variables of RectangleSweepline.run when its loop starts;
\* point_rect and new_overlaps are not yet bound
rectangle_run_locals ==
  [active |-> <<>>, active_overlaps |-> <<>>, point |-> 1, item |-> 1,
   point_rect |-> None, new_overlaps |-> None]

\* RectangleSweepline.run, the body of the inner loop for one point_rect
RectangleSweepline_run_body(self, locals) ==
  LET current_point == self.points_list[locals.point]
      point_rect == self.points_dict[current_point][locals.item]
      rect_object == point_rect.object
  IN IF point_rect.type = "start"
     THEN LET new_overlaps ==
                IF Len(locals.active) > 0
                THEN Some(RectangleSweepline_check_overlaps(
                            rect_object, locals.active, current_point))
                ELSE locals.new_overlaps
          IN [self |-> self,
              locals |-> advance(self,
                [locals EXCEPT
                   !.point_rect = Some(point_rect),
                   !.new_overlaps = new_overlaps,
                   !.active_overlaps =
                      IF Len(locals.active) > 0 THEN @ \o new_overlaps[1] ELSE @,
                   !.active = dict_set(@, rect_object)])]
     ELSE LET remaining == dict_del(locals.active, rect_object)
              st == RectangleSweepline_terminate(
                      [active_overlaps |-> locals.active_overlaps,
                       final_overlaps |-> self.final_overlaps,
                       graph |-> self.graph],
                      Len(locals.active_overlaps), rect_object.id_, current_point)
          IN [self |-> [self EXCEPT !.final_overlaps = st.final_overlaps,
                                    !.graph = st.graph],
              locals |-> advance(self,
                [locals EXCEPT
                   !.point_rect = Some(point_rect),
                   !.new_overlaps =
                      IF @ = None THEN @
                      ELSE Some(shared_overlaps(@[1],
                             SubSeq(st.final_overlaps,
                                    Len(self.final_overlaps) + 1,
                                    Len(st.final_overlaps)))),
                   !.active = remaining,
                   !.active_overlaps = st.active_overlaps])]

InitRectangleSweepline == InitIntervalSweepline

\* the generator stores one more rectangle
generate_rectangle ==
  /\ pc = "generate"
  /\ Len(objects_dict) < MaxObjects
  /\ \E x1, x2 \in 0..MaxX : \E y1, y2 \in 0..MaxY :
       /\ x1 < x2
       /\ y1 < y2
       /\ objects_dict' = Append(objects_dict,
            RectangleObject(Len(objects_dict) + 1, x1, x2, y1, y2))
  /\ UNCHANGED <<pc, sweepline, frame, legacyframe>>

\* algorithm = RectangleSweepline(generator)
new_RectangleSweepline ==
  /\ pc = "generate"
  /\ sweepline' = Some(RectangleSweepline(objects_dict))
  /\ pc' = "constructed"
  /\ UNCHANGED <<objects_dict, frame, legacyframe>>

\* algorithm.run(), up to the loop
RectangleSweepline_run_start ==
  /\ pc = "constructed"
  /\ sweepline' = Some([sweepline[1] EXCEPT !.final_overlaps = <<>>])
  /\ frame' = Some(rectangle_run_locals)
  /\ pc' = IF sweepline[1].points_list = <<>> THEN "finished" ELSE "run"
  /\ UNCHANGED <<objects_dict, legacyframe>>

\* algorithm.run(), one pass of the inner loop
RectangleSweepline_run_step ==
  /\ pc = "run"
  /\ LET next == RectangleSweepline_run_body(sweepline[1], frame[1])
     IN /\ sweepline' = Some(next.self)
        /\ frame' = Some(next.locals)
        /\ pc' = IF next.locals.point > Len(next.self.points_list)
                 THEN "finished" ELSE "run"
  /\ UNCHANGED <<objects_dict, legacyframe>>

NextRectangleSweepline ==
  \/ generate_rectangle
  \/ new_RectangleSweepline
  \/ RectangleSweepline_run_start
  \/ RectangleSweepline_run_step

SpecRectangleSweepline == InitRectangleSweepline /\ [][NextRectangleSweepline]_vars

\* the last step of run called _check_overlaps for the rectangle that is now
\* the newest active one, with the other active rectangles as active_rects
Checked ==
  /\ frame # None
  /\ frame[1].point_rect # None
  /\ frame[1].point_rect[1].type = "start"
  /\ Len(frame[1].active) > 1

NewRect == frame[1].active[Len(frame[1].active)]
ActiveRects == SubSeq(frame[1].active, 1, Len(frame[1].active) - 1)
Returned == frame[1].new_overlaps[1]

\* the length of the common part of the y-ranges of two rectangles
YOverlap(a, b) == Min2(a.y2, b.y2) - Max2(a.y1, b.y1)

(***************************************************************************)
(* C35: RectangleSweepline._check_overlaps returns an entry for an active  *)
(* rectangle P exactly when the y-ranges of the new rectangle and P        *)
(* overlap with positive length, the entry's y_length is the length of     *)
(* that overlap, and whether P is returned is the same as when P is the    *)
(* only active rectangle.                                                  *)
(***************************************************************************)
C35_CheckOverlapsByYRange ==
  Checked =>
    \A i \in 1..Len(ActiveRects) :
      LET P == ActiveRects[i]
          entries == {n \in 1..Len(Returned) : Returned[n]["1"] = P.id_}
      IN /\ (entries # {}) <=> (YOverlap(NewRect, P) > 0)
         /\ \A n \in entries : Returned[n]["y_length"] = YOverlap(NewRect, P)
         /\ (entries # {}) <=>
              (RectangleSweepline_check_overlaps(
                 NewRect, <<P>>, frame[1].point_rect[1].object.x1) # <<>>)

(***************************************************************************)
(* Legacy Timeline  (datastructs/timeline.py) as a state machine: a        *)
(* RegionSet is built, then the sorted events of one dimension are taken.  *)
(***************************************************************************)
InitTimeline ==
  /\ \E d \in Dimensions : regionset = RegionSet(d, None)
  /\ pc = "timeline"
  /\ sweepdim = 0
  /\ timeline = <<>>
  /\ pos = 0
  /\ actives = <<>>
  /\ graph = EmptyGraph
  /\ candidates = <<>>
  /\ overlaps = <<>>
  /\ result = None
  /\ dispatched = None
  /\ ilist = <<>>
  /\ iout = Idle
  /\ rsout = Idle
  /\ objects_dict = <<>>
  /\ sweepline = None
  /\ frame = None

timelineframe == <<pos, actives, graph, candidates, overlaps, result, dispatched,
                   ilist, iout, rsout, objects_dict, sweepline, frame>>

\* the RegionSet of the Timeline receives one more region
Timeline_add ==
  /\ pc = "timeline"
  /\ Len(regionset.regions) < RegionCap(regionset.dimension)
  /\ \E factors \in [0..(regionset.dimension - 1) -> AllIntervals] :
       regionset' = RegionSet_add(regionset,
                                  Region(Len(regionset.regions) + 1, factors,
                                         Len(regionset.regions) + 1)).rs
  /\ UNCHANGED <<pc, sweepdim, timeline, timelineframe>>

\* Timeline(regions).events(dimension), iterated to its end
Timeline_iterate ==
  /\ pc = "timeline"
  /\ \E dimension \in 0..(regionset.dimension - 1) :
       /\ sweepdim' = dimension
       /\ timeline' = Timeline_sorted_events(regionset, dimension)
  /\ pc' = "sorted"
  /\ UNCHANGED <<regionset, timelineframe>>

NextTimeline ==
  \/ Timeline_add
  \/ Timeline_iterate

SpecTimeline == InitTimeline /\ [][NextTimeline]_vars

\* the events of the set on the chosen dimension
TimelineEvents == {timeline[n] : n \in 1..Len(timeline)}

\* neither event is ordered before the other
Incomparable(a, b) == ~Event_lt(a, b) /\ ~Event_lt(b, a)

\* the positions of the Begin and of the End of a region in the sequence
EventIndex(kind, id) ==
  CHOOSE n \in 1..Len(timeline) :
    timeline[n].kind = kind /\ timeline[n].context.id = id

(***************************************************************************)
(* C36: Event.__lt__ is a strict weak order on the events of any           *)
(* RegionSet, zero-length regions included (irreflexive, asymmetric,       *)
(* transitive, and with a transitive incomparability), and in the sorted   *)
(* sequence the Begin of every region precedes its End, and an End         *)
(* precedes the Begin of a different region with the same `when`.          *)
(***************************************************************************)
C36_EventOrderConsistent ==
  pc = "sorted" =>
    /\ \A a, b \in TimelineEvents : Event_lt(a, b) => ~Event_lt(b, a)
    /\ \A a, b, c \in TimelineEvents :
         (Event_lt(a, b) /\ Event_lt(b, c)) => Event_lt(a, c)
    /\ \A a, b, c \in TimelineEvents :
         (Incomparable(a, b) /\ Incomparable(b, c)) => Incomparable(a, c)
    /\ \A id \in RegionIds :
         EventIndex(EventKind_Begin, id) < EventIndex(EventKind_End, id)
    /\ \A m, n \in 1..Len(timeline) :
         (/\ timeline[m].kind = EventKind_End
          /\ timeline[n].kind = EventKind_Begin
          /\ timeline[m].when = timeline[n].when
          /\ timeline[m].context.id # timeline[n].context.id) => m < n

====
